---- MODULE Spec2Model ----
(***************************************************************************)
(* Content discovery and relevance engine of the TaciaDocs backend:        *)
(* path resolution of the structure and content endpoints, the directory   *)
(* listing with its sort, and the related-documents service with its       *)
(* cache.                                                                  *)
(*                                                                         *)
(* A JavaScript string is a sequence of one-character strings, so that the *)
(* regular expressions, startsWith/endsWith and the path module work on    *)
(* the spelling of a path, as they do in the code.  The path module is the *)
(* POSIX one (the server is packaged for Linux): '/' separates segments    *)
(* and a backslash is an ordinary character of a segment.                  *)
(***************************************************************************)
EXTENDS Integers, Sequences, FiniteSets, TLC

\* fs       the directory tree: node key (names from /) -> directory or file
\* variant  which findRelatedDocuments runs: "path" (related.service.js) or
\*          "tags" (the tag-based variant)
\* request  the request being answered, NoRequest between requests
\* response the response to it
\* touched  the filesystem calls made for it, as [op, path]
\* cache    relatedDocsCache
\* now      Date.now()
VARIABLES fs, variant, request, response, touched, cache, now

vars == <<fs, variant, request, response, touched, cache, now>>

(***************************************************************************)
(* Strings                                                                 *)
(***************************************************************************)
SLASH == "/"
BSLASH == "\\"
DOT == "."

Seps == {SLASH, BSLASH}

StartsWith(s, p) == Len(p) <= Len(s) /\ SubSeq(s, 1, Len(p)) = p

EndsWith(s, p) == Len(p) <= Len(s) /\ SubSeq(s, Len(s) - Len(p) + 1, Len(s)) = p

Drop(s, n) == SubSeq(s, n + 1, Len(s))

Take(s, n) == SubSeq(s, 1, n)

\* String.prototype.toLowerCase on the letters the model's names use.
LowerChar(c) ==
  CASE c = "M" -> "m"
    [] c = "D" -> "d"
    [] c = "A" -> "a"
    [] OTHER -> c

ToLowerCase(s) == [i \in 1..Len(s) |-> LowerChar(s[i])]

\* s.replace(/\\/g, '/')
ReplaceBackslashes(s) == [i \in 1..Len(s) |-> IF s[i] = BSLASH THEN SLASH ELSE s[i]]

\* Number of leading characters of s that belong to cs.
RECURSIVE LeadingRun(_, _)
LeadingRun(s, cs) ==
  IF s # <<>> /\ s[1] \in cs THEN 1 + LeadingRun(Tail(s), cs) ELSE 0

\* Number of trailing characters of s that belong to cs.
RECURSIVE TrailingRun(_, _)
TrailingRun(s, cs) ==
  IF s # <<>> /\ s[Len(s)] \in cs THEN 1 + TrailingRun(Take(s, Len(s) - 1), cs) ELSE 0

\* s.replace(/^[/\\]+/, '')
StripLeadingSeps(s) == Drop(s, LeadingRun(s, Seps))

\* s.replace(/[/\\]+/g, '/')
RECURSIVE CollapseSeps(_)
CollapseSeps(s) ==
  IF s = <<>> THEN <<>>
  ELSE IF s[1] \in Seps THEN <<SLASH>> \o CollapseSeps(Drop(s, LeadingRun(s, Seps)))
  ELSE <<s[1]>> \o CollapseSeps(Tail(s))

\* s.split('/'): the segments between slashes, empty ones kept.
RECURSIVE SplitSlash(_)
SplitAt(s, n) ==
  IF n = Len(s) THEN <<s>>
  ELSE <<Take(s, n)>> \o SplitSlash(Drop(s, n + 1))

SplitSlash(s) == SplitAt(s, LeadingRun(s, {s[i] : i \in 1..Len(s)} \ {SLASH}))

\* segs.join('/')
RECURSIVE JoinSlash(_)
JoinSlash(segs) ==
  IF segs = <<>> THEN <<>>
  ELSE IF Len(segs) = 1 THEN segs[1]
  ELSE segs[1] \o <<SLASH>> \o JoinSlash(Tail(segs))

DOTDOT == <<DOT, DOT>>

(***************************************************************************)
(* The path module (POSIX)                                                 *)
(***************************************************************************)
\* normalizeString: drops empty and '.' segments, resolves '..' against the
\* segment before it; above the start a '..' is kept only when allowed.
RECURSIVE NormalizeSegs(_, _, _)
NormalizeSegs(segs, acc, allowAboveRoot) ==
  IF segs = <<>> THEN acc
  ELSE LET s == segs[1]
           rest == Tail(segs)
       IN IF s = <<>> \/ s = <<DOT>> THEN NormalizeSegs(rest, acc, allowAboveRoot)
          ELSE IF s = DOTDOT
          THEN IF acc # <<>> /\ acc[Len(acc)] # DOTDOT
               THEN NormalizeSegs(rest, Take(acc, Len(acc) - 1), allowAboveRoot)
               ELSE IF allowAboveRoot
               THEN NormalizeSegs(rest, Append(acc, DOTDOT), allowAboveRoot)
               ELSE NormalizeSegs(rest, acc, allowAboveRoot)
          ELSE NormalizeSegs(rest, Append(acc, s), allowAboveRoot)

\* path.normalize, given the normalized segments of p joined by slashes.
NormalizeAround(p, body) ==
  LET isAbsolute == p[1] = SLASH
      trailingSeparator == p[Len(p)] = SLASH
  IN IF body = <<>>
     THEN IF isAbsolute THEN <<SLASH>>
          ELSE IF trailingSeparator THEN <<DOT, SLASH>> ELSE <<DOT>>
     ELSE (IF isAbsolute THEN <<SLASH>> ELSE <<>>) \o body
          \o (IF trailingSeparator THEN <<SLASH>> ELSE <<>>)

\* path.normalize
PathNormalize(p) ==
  IF p = <<>> THEN <<DOT>>
  ELSE NormalizeAround(p, JoinSlash(NormalizeSegs(SplitSlash(p), <<>>, p[1] # SLASH)))

\* path.join(a, b) (and path.posix.join)
PathJoin(a, b) ==
  IF a = <<>> /\ b = <<>> THEN <<DOT>>
  ELSE PathNormalize(IF a = <<>> THEN b
                     ELSE IF b = <<>> THEN a
                     ELSE a \o <<SLASH>> \o b)

\* Index of the slash that ends the directory part: the last slash at an
\* index above 1 that has a non-slash character somewhere after it; 0 if none.
DirnameEnd(p) ==
  LET cands == {i \in 2..Len(p) :
                  p[i] = SLASH /\ \E j \in (i + 1)..Len(p) : p[j] # SLASH}
  IN IF cands = {} THEN 0 ELSE CHOOSE i \in cands : \A j \in cands : j <= i

DirnameUpTo(p, end) ==
  IF end = 0 THEN (IF p[1] = SLASH THEN <<SLASH>> ELSE <<DOT>>)
  ELSE IF p[1] = SLASH /\ end = 2 THEN <<SLASH, SLASH>>
  ELSE Take(p, end - 1)

\* path.dirname
PathDirname(p) == IF p = <<>> THEN <<DOT>> ELSE DirnameUpTo(p, DirnameEnd(p))

Last(s) == s[Len(s)]

\* The last segment of a path, trailing slashes ignored.
LastSegment(p) == Last(SplitSlash(Take(p, Len(p) - TrailingRun(p, {SLASH}))))

\* The extension of a single segment: from its last dot, unless that dot is
\* the segment's first character or the segment is '..'.
SegmentExtname(seg) ==
  LET dots == {i \in 1..Len(seg) : seg[i] = DOT}
      last == IF dots = {} THEN 0 ELSE CHOOSE i \in dots : \A j \in dots : j <= i
  IN IF last <= 1 \/ seg = DOTDOT THEN <<>>
     ELSE Drop(seg, last - 1)

\* path.extname
PathExtname(p) == SegmentExtname(LastSegment(p))

(***************************************************************************)
(* The filesystem.  fs maps a node, named by the sequence of names that    *)
(* leads to it from '/', to a directory (its entries in the order readdir  *)
(* yields them) or a file (the metadata its text holds).  The API is       *)
(* read-only: no action changes fs.                                        *)
(***************************************************************************)
Str_r == <<"r">>
Str_rx == <<"r", "x">>
Str_d == <<"d">>
Str_b == <<"b">>
Str_zz == <<"z", "z">>
Str_md == <<DOT, "m", "d">>
Str_html == <<DOT, "h", "t", "m", "l">>
Str_a_md == <<"a">> \o Str_md
Str_b_md == <<"b">> \o Str_md
Str_c_md == <<"c">> \o Str_md
Str_e_MD == <<"e", DOT, "M", "D">>
Str_n_txt == <<"n", DOT, "t", "x", "t">>
Str_x_html == <<"x">> \o Str_html
Str_hid == <<DOT, "h">>
Str_metadata == <<DOT, "m", "e", "t", "a", "d", "a", "t", "a">>

\* server.js: CONTENT_DIR = path.resolve(processedContentDir), here '/r'.
CONTENT_DIR == <<SLASH>> \o Str_r

\* A value read from YAML: absent, a number, null, or a non-numeric string.
Undefined == [t |-> "undefined", n |-> 0]
Null == [t |-> "null", n |-> 0]
NonNumeric == [t |-> "string", n |-> 0]
Num(n) == [t |-> "number", n |-> n]

\* fault: "none", "EACCES" for a node the process may not read or list, or
\* "malformed" for a file whose metadata block is not valid YAML.
Dir(entries) ==
  [kind |-> "dir", entries |-> entries, order |-> Undefined, tags |-> <<>>,
   hasTags |-> FALSE, fault |-> "none"]

\* A file whose metadata block holds the order and the tags given
\* (hasTags: the tags key is present; tags: [] is a present, empty list).
File(order, hasTags, tags) ==
  [kind |-> "file", entries |-> <<>>, order |-> order, tags |-> tags, hasTags |-> hasTags,
   fault |-> "none"]

PlainFile == File(Undefined, FALSE, <<>>)

\* The node with a fault.
Faulty(node, fault) == [node EXCEPT !.fault = fault]

\* The non-empty segments of an absolute path.
PathSegments(abs) == SelectSeq(SplitSlash(abs), LAMBDA s : s # <<>>)

\* Path resolution by the operating system, from node key on.
RECURSIVE WalkFrom(_, _, _)
WalkFrom(tree, key, segs) ==
  IF segs = <<>> THEN [err |-> "OK", key |-> key]
  ELSE IF tree[key].kind # "dir" THEN [err |-> "ENOTDIR", key |-> key]
  ELSE LET s == segs[1]
       IN IF s = <<DOT>> THEN WalkFrom(tree, key, Tail(segs))
          ELSE IF s = DOTDOT
          THEN WalkFrom(tree, IF key = <<>> THEN key ELSE Take(key, Len(key) - 1), Tail(segs))
          ELSE IF \E i \in 1..Len(tree[key].entries) : tree[key].entries[i] = s
          THEN WalkFrom(tree, Append(key, s), Tail(segs))
          ELSE [err |-> "ENOENT", key |-> key]

\* A trailing slash asks for a directory.
WalkEnd(tree, abs, w) ==
  IF w.err = "OK" /\ abs[Len(abs)] = SLASH /\ tree[w.key].kind # "dir"
  THEN [err |-> "ENOTDIR", key |-> w.key]
  ELSE w

\* The node an absolute path names.
Walk(tree, abs) == WalkEnd(tree, abs, WalkFrom(tree, <<>>, PathSegments(abs)))

StatOf(tree, w) ==
  [err |-> w.err, isDirectory |-> w.err = "OK" /\ tree[w.key].kind = "dir"]

\* fs.stat
FsStat(tree, abs) == StatOf(tree, Walk(tree, abs))

\* fs.access: TRUE when the path exists.
FsAccess(tree, abs) == Walk(tree, abs).err = "OK"

ReaddirOf(tree, w) ==
  IF w.err # "OK" THEN [err |-> w.err, entries |-> <<>>]
  ELSE IF tree[w.key].kind # "dir" THEN [err |-> "ENOTDIR", entries |-> <<>>]
  ELSE IF tree[w.key].fault = "EACCES" THEN [err |-> "EACCES", entries |-> <<>>]
  ELSE [err |-> "OK",
        entries |-> [i \in 1..Len(tree[w.key].entries) |->
                       [name |-> tree[w.key].entries[i],
                        isDirectory |-> tree[Append(w.key, tree[w.key].entries[i])].kind = "dir"]]]

\* fs.readdir(abs, {withFileTypes: true})
FsReaddir(tree, abs) == ReaddirOf(tree, Walk(tree, abs))

ReadFileOf(tree, w) ==
  IF w.err # "OK" THEN [err |-> w.err, node |-> PlainFile]
  ELSE IF tree[w.key].kind = "dir" THEN [err |-> "EISDIR", node |-> PlainFile]
  ELSE IF tree[w.key].fault = "EACCES" THEN [err |-> "EACCES", node |-> PlainFile]
  ELSE [err |-> "OK", node |-> tree[w.key]]

\* fs.readFile(abs, 'utf8'), parsed: the metadata block of the file.
FsReadFile(tree, abs) == ReadFileOf(tree, Walk(tree, abs))

\* yaml.parse, or matter, of what was read: it throws on a malformed block.
Parsed(read) ==
  IF read.err = "OK" /\ read.node.fault = "malformed"
  THEN [err |-> "YAMLException", node |-> read.node]
  ELSE read

\* A filesystem call the code makes: the operation and its path argument.
Call(op, abs) == [op |-> op, path |-> abs]

\* The path is the content root or a true descendant of it.
SegmentsInside(segs, root) ==
  /\ Len(segs) >= Len(root)
  /\ SubSeq(segs, 1, Len(root)) = root
  /\ \A i \in 1..Len(segs) : segs[i] # DOTDOT

InsideRoot(abs) == SegmentsInside(PathSegments(abs), <<Str_r>>)

(***************************************************************************)
(* StructureController: the directory listing                              *)
(***************************************************************************)
\* Number.MAX_SAFE_INTEGER, the comparator's stand-in for a missing order.
\* The program's value is 2^53 - 1; the model uses 2^31 - 1, the largest
\* integer of TLC.  Only its place above the other orders matters.
MAX_SAFE_INTEGER == 2147483647

\* config.contentExtensions
contentExtensions == {Str_html, Str_md}

\* Number(v) || 0 for a value read from YAML: null and NaN become 0.
NumberOrZero(v) == IF v.t = "number" THEN v.n ELSE 0

\* item.order after the metadata has been read: <<>> when it was never set.
ItemOrder(meta) ==
  IF meta.order.t = "undefined" THEN <<>> ELSE <<NumberOrZero(meta.order)>>

\* Position of a character in the collation order of localeCompare.
CharRank(c) ==
  CASE c = DOT -> 0
    [] c = "a" -> 1
    [] c = "b" -> 2
    [] c = "c" -> 3
    [] c = "d" -> 4
    [] c = "e" -> 5
    [] c = "h" -> 6
    [] c = "l" -> 7
    [] c = "m" -> 8
    [] c = "M" -> 9
    [] c = "n" -> 10
    [] c = "r" -> 11
    [] c = "t" -> 12
    [] c = "x" -> 13
    [] c = "z" -> 14
    [] OTHER -> 15

\* a.localeCompare(b): negative, zero or positive.
RECURSIVE LocaleCompare(_, _)
LocaleCompare(a, b) ==
  IF a = <<>> /\ b = <<>> THEN 0
  ELSE IF a = <<>> THEN -1
  ELSE IF b = <<>> THEN 1
  ELSE IF CharRank(a[1]) < CharRank(b[1]) THEN -1
  ELSE IF CharRank(a[1]) > CharRank(b[1]) THEN 1
  ELSE LocaleCompare(Tail(a), Tail(b))

\* A comparator that orders by order and then by name alone.
CompareItemsByName(a, b) ==
  LET aOrder == IF a.order # <<>> THEN a.order[1] ELSE MAX_SAFE_INTEGER
      bOrder == IF b.order # <<>> THEN b.order[1] ELSE MAX_SAFE_INTEGER
  IN IF (a.order # <<>> \/ b.order # <<>>) /\ aOrder # bOrder THEN aOrder - bOrder
     ELSE LocaleCompare(a.name, b.name)

\* The comparator of items.sort in listDirectoryContents.
CompareItems(a, b) ==
  LET aOrder == IF a.order # <<>> THEN a.order[1] ELSE MAX_SAFE_INTEGER
      bOrder == IF b.order # <<>> THEN b.order[1] ELSE MAX_SAFE_INTEGER
  IN IF (a.order # <<>> \/ b.order # <<>>) /\ aOrder # bOrder THEN aOrder - bOrder
     ELSE IF a.isDirectory /\ ~b.isDirectory THEN -1
     ELSE IF ~a.isDirectory /\ b.isDirectory THEN 1
     ELSE LocaleCompare(a.name, b.name)

\* Insert x into the sorted sequence s, after the elements it does not precede.
RECURSIVE InsertItem(_, _)
InsertItem(s, x) ==
  IF s = <<>> THEN <<x>>
  ELSE IF CompareItems(x, s[Len(s)]) < 0
  THEN Append(InsertItem(Take(s, Len(s) - 1), x), s[Len(s)])
  ELSE Append(s, x)

\* Array.prototype.sort with CompareItems (a stable sort).
RECURSIVE SortItems(_)
SortItems(s) ==
  IF s = <<>> THEN <<>>
  ELSE InsertItem(SortItems(Take(s, Len(s) - 1)), s[Len(s)])

\* The hidden-entry filter: a leading dot, .metadata excepted.
IsHidden(name) == StartsWith(name, <<DOT>>) /\ name # Str_metadata

\* An extension filter that lets every name with an extension through.
ExtensionPresent(name) == PathExtname(name) # <<>>

\* The extension filter for entries that are not directories.
ExtensionAllowed(name) == ToLowerCase(PathExtname(name)) \in contentExtensions

\* The order an entry gets from the metadata read for it, if the read
\* succeeded.
OrderRead(read) == IF Parsed(read).err = "OK" THEN ItemOrder(read.node) ELSE <<>>

\* The order a directory gets from its .metadata: when yaml.parse throws,
\* parseMetadataFile reads the keys line by line.
SidecarOrder(read) == IF read.err = "OK" THEN ItemOrder(read.node) ELSE <<>>

\* A loop body that drops the entry whose metadata cannot be read or parsed.
EntryItemStrict(tree, entry, entryPath, relativePath, metaPath) ==
  LET readsMeta == entry.isDirectory \/ EndsWith(entry.name, Str_md)
  IN [items |-> IF entry.name = Str_metadata THEN <<>>
                ELSE IF readsMeta /\ Parsed(FsReadFile(tree, metaPath)).err # "OK"
                THEN <<>>
                ELSE <<[name |-> entry.name, path |-> relativePath,
                        isDirectory |-> entry.isDirectory,
                        order |-> IF readsMeta
                                  THEN ItemOrder(FsReadFile(tree, metaPath).node)
                                  ELSE <<>>]>>,
      calls |-> {Call("stat", entryPath)}
                \cup (IF readsMeta THEN {Call("readFile", metaPath)} ELSE {})]

\* An entry that passed the filters: it is stat-ed, its metadata is read from
\* metaPath when it is a directory or a markdown file, and it is pushed
\* unless it is the .metadata file itself.
EntryItem(tree, entry, entryPath, relativePath, metaPath) ==
  LET readsMeta == entry.isDirectory \/ EndsWith(entry.name, Str_md)
  IN [items |-> IF entry.name = Str_metadata THEN <<>>
                ELSE <<[name |-> entry.name, path |-> relativePath,
                        isDirectory |-> entry.isDirectory,
                        order |-> IF entry.isDirectory
                                  THEN SidecarOrder(FsReadFile(tree, metaPath))
                                  ELSE IF readsMeta
                                  THEN OrderRead(FsReadFile(tree, metaPath))
                                  ELSE <<>>]>>,
      calls |-> {Call("stat", entryPath)}
                \cup (IF readsMeta THEN {Call("readFile", metaPath)} ELSE {})]

\* One entry of the loop of listDirectoryContents: the item it pushes (none
\* for a skipped entry) and the filesystem calls it makes.
ListEntryAt(tree, contentPath, entry, entryPath) ==
  IF IsHidden(entry.name) THEN [items |-> <<>>, calls |-> {}]
  ELSE IF ~entry.isDirectory /\ entry.name # Str_metadata /\ ~ExtensionAllowed(entry.name)
  THEN [items |-> <<>>, calls |-> {}]
  ELSE EntryItem(tree, entry, entryPath,
                 ReplaceBackslashes(PathJoin(contentPath, entry.name)),
                 IF entry.isDirectory THEN PathJoin(entryPath, Str_metadata) ELSE entryPath)

ListEntry(tree, fullPath, contentPath, entry) ==
  ListEntryAt(tree, contentPath, entry, PathJoin(fullPath, entry.name))

Both(head, rest) ==
  [items |-> head.items \o rest.items, calls |-> head.calls \cup rest.calls]

RECURSIVE ListEntries(_, _, _, _)
ListEntries(tree, fullPath, contentPath, entries) ==
  IF entries = <<>> THEN [items |-> <<>>, calls |-> {}]
  ELSE Both(ListEntry(tree, fullPath, contentPath, entries[1]),
            ListEntries(tree, fullPath, contentPath, Tail(entries)))

ErrorResponse(status, error) ==
  [status |-> status, error |-> error, listing |-> FALSE, items |-> <<>>, count |-> 0]

ListingResponse(items) ==
  [status |-> 200, error |-> "", listing |-> TRUE, items |-> items, count |-> Len(items)]

Listed(fullPath, listed) ==
  [response |-> ListingResponse(SortItems(listed.items)),
   calls |-> {Call("readdir", fullPath)} \cup listed.calls]

ListDirectoryOf(tree, fullPath, contentPath, files) ==
  IF files.err # "OK"
  THEN [response |-> ErrorResponse(500, "Internal Server Error"),
        calls |-> {Call("readdir", fullPath)}]
  ELSE Listed(fullPath, ListEntries(tree, fullPath, contentPath, files.entries))

\* listDirectoryContents: the response and the filesystem calls made.
ListDirectoryContents(tree, fullPath, contentPath) ==
  ListDirectoryOf(tree, fullPath, contentPath, FsReaddir(tree, fullPath))

\* s.replace(/^(\/\.\.|\/\.|\\.\.|\\.)+/g, ''): at the start of s, as long as
\* one matches, '/..', '/.', a backslash with any character and a dot after
\* it, or a backslash with any character.
RECURSIVE StripTraversalPrefix(_)
StripTraversalPrefix(s) ==
  IF StartsWith(s, <<SLASH, DOT, DOT>>) THEN StripTraversalPrefix(Drop(s, 3))
  ELSE IF StartsWith(s, <<SLASH, DOT>>) THEN StripTraversalPrefix(Drop(s, 2))
  ELSE IF Len(s) >= 3 /\ s[1] = BSLASH /\ s[3] = DOT THEN StripTraversalPrefix(Drop(s, 3))
  ELSE IF Len(s) >= 2 /\ s[1] = BSLASH THEN StripTraversalPrefix(Drop(s, 2))
  ELSE s

\* The path the structure endpoint resolves a request path to.
StructureSafePath(contentPath) ==
  CollapseSeps(StripLeadingSeps(StripTraversalPrefix(PathNormalize(contentPath))))

StructureFullPath(contentPath) == PathJoin(CONTENT_DIR, StructureSafePath(contentPath))

\* The security check of both controllers: fullPath.startsWith(CONTENT_DIR).
PassesSecurityCheck(fullPath) == StartsWith(fullPath, CONTENT_DIR)

WithCall(call, r) == [response |-> r.response, calls |-> {call} \cup r.calls]

\* The outcome of the stat of the resolved path.
StructureStatted(tree, contentPath, fullPath, stats) ==
  IF stats.err = "ENOENT"
  THEN [response |-> ErrorResponse(404, "Directory not found"), calls |-> {}]
  ELSE IF stats.err # "OK"
  THEN [response |-> ErrorResponse(500, "Internal Server Error"), calls |-> {}]
  ELSE IF ~stats.isDirectory
  THEN [response |-> ErrorResponse(400, "Path is not a directory"), calls |-> {}]
  ELSE ListDirectoryContents(tree, fullPath, contentPath)

StructureResolved(tree, contentPath, fullPath) ==
  IF ~PassesSecurityCheck(fullPath)
  THEN [response |-> ErrorResponse(400, "Invalid path"), calls |-> {}]
  ELSE WithCall(Call("stat", fullPath),
                StructureStatted(tree, contentPath, fullPath, FsStat(tree, fullPath)))

\* handleContentStructure: the response and the filesystem calls made.
HandleContentStructure(tree, contentPath) ==
  IF contentPath = <<>> \/ contentPath = <<SLASH>>
  THEN ListDirectoryContents(tree, CONTENT_DIR, <<>>)
  ELSE StructureResolved(tree, contentPath, StructureFullPath(contentPath))

(***************************************************************************)
(* ContentController: a content file                                       *)
(***************************************************************************)
\* s.replace(/[/\\]+\.\.\//g, '/'): every run of separators followed by '../'
\* becomes one slash; the search goes on after the text replaced.
RECURSIVE ReplaceSepDotDotSlash(_)
ReplaceAfterRun(s, n) ==
  IF StartsWith(Drop(s, n), <<DOT, DOT, SLASH>>)
  THEN <<SLASH>> \o ReplaceSepDotDotSlash(Drop(s, n + 3))
  ELSE Take(s, n) \o ReplaceSepDotDotSlash(Drop(s, n))

ReplaceSepDotDotSlash(s) ==
  IF s = <<>> THEN <<>>
  ELSE IF s[1] \in Seps THEN ReplaceAfterRun(s, LeadingRun(s, Seps))
  ELSE <<s[1]>> \o ReplaceSepDotDotSlash(Tail(s))

\* The path the content endpoint resolves a request path to.
ContentSafePath(contentPath) ==
  CollapseSeps(ReplaceSepDotDotSlash(StripLeadingSeps(PathNormalize(contentPath))))

ContentFullPath(contentPath) == PathJoin(CONTENT_DIR, ContentSafePath(contentPath))

\* The outcome of the read of the resolved path.
ContentRead(file) ==
  IF file.err = "ENOENT" THEN ErrorResponse(404, "Not Found")
  ELSE IF file.err # "OK" THEN ErrorResponse(500, "Internal Server Error")
  ELSE [status |-> 200, error |-> "", listing |-> FALSE, items |-> <<>>, count |-> 0]

ContentResolved(tree, fullPath) ==
  IF ~PassesSecurityCheck(fullPath)
  THEN [response |-> ErrorResponse(400, "Invalid path"), calls |-> {}]
  ELSE [response |-> ContentRead(FsReadFile(tree, fullPath)),
        calls |-> {Call("readFile", fullPath)}]

\* handleRequest and handleContentRequest: the response and the filesystem
\* calls made.
HandleContentRequest(tree, contentPath) ==
  IF PathExtname(contentPath) = <<>>
  THEN [response |-> ErrorResponse(404, "Not Found"), calls |-> {}]
  ELSE ContentResolved(tree, ContentFullPath(contentPath))

(***************************************************************************)
(* Request paths: up to MaxSegments segments, joined by slashes or         *)
(* backslashes, with or without a leading and a trailing separator.        *)
(***************************************************************************)
MaxSegments == 3

SegmentNames == {DOTDOT, <<DOT>>, Str_d, Str_a_md, Str_rx, Str_zz}

RECURSIVE JoinWith(_, _)
JoinWith(segs, seps) ==
  IF Len(segs) = 1 THEN segs[1]
  ELSE segs[1] \o <<seps[1]>> \o JoinWith(Tail(segs), Tail(seps))

RawPaths ==
  {<<>>, <<SLASH>>} \cup
  UNION {{lead \o JoinWith(segs, seps) \o trail :
            segs \in [1..n -> SegmentNames], seps \in [1..(n - 1) -> Seps],
            lead \in {<<>>, <<SLASH>>, <<BSLASH>>}, trail \in {<<>>, <<SLASH>>}} :
         n \in 1..MaxSegments}

\* The tree the path requests run against: the content root /r with a
\* directory and a document, and beside it /rx, whose name starts with the
\* content root's.
PathTree ==
  (<<>> :> Dir(<<Str_r, Str_rx>>)) @@
  (<<Str_r>> :> Dir(<<Str_d, Str_a_md>>)) @@
  (<<Str_r, Str_d>> :> Dir(<<Str_metadata, Str_a_md>>)) @@
  (<<Str_r, Str_d, Str_metadata>> :> File(Num(1), FALSE, <<>>)) @@
  (<<Str_r, Str_d, Str_a_md>> :> PlainFile) @@
  (<<Str_r, Str_a_md>> :> PlainFile) @@
  (<<Str_rx>> :> Dir(<<Str_d, Str_a_md>>)) @@
  (<<Str_rx, Str_d>> :> Dir(<<>>)) @@
  (<<Str_rx, Str_a_md>> :> PlainFile)

NoRequest == [endpoint |-> "none", path |-> <<>>]

\* relatedDocsCache = new Map()
EmptyCache == [k \in {} |-> 0]

NoResponse == ErrorResponse(0, "")

InitPath ==
  /\ fs = PathTree
  /\ variant = "path"
  /\ request = NoRequest
  /\ response = NoResponse
  /\ touched = {}
  /\ cache = EmptyCache
  /\ now = 0

\* GET /api/structure/<path>
\* The handler has answered request p with r.
Answer(endpoint, p, r) ==
  /\ request' = [endpoint |-> endpoint, path |-> p]
  /\ response' = r.response
  /\ touched' = r.calls

StructureRequest ==
  \E p \in RawPaths :
    /\ request = NoRequest
    /\ Answer("structure", p, HandleContentStructure(fs, p))
    /\ UNCHANGED <<fs, variant, cache, now>>

\* GET /api/content/<path>
ContentRequest ==
  \E p \in RawPaths :
    /\ request = NoRequest
    /\ Answer("content", p, HandleContentRequest(fs, p))
    /\ UNCHANGED <<fs, variant, cache, now>>

\* The response has been sent; the server waits for the next request.
Finish ==
  /\ request # NoRequest
  /\ request' = NoRequest
  /\ response' = NoResponse
  /\ touched' = {}
  /\ UNCHANGED <<fs, variant, cache, now>>

NextPath == StructureRequest \/ ContentRequest \/ Finish

SpecPath == InitPath /\ [][NextPath]_vars

(***************************************************************************)
(* Claims on path resolution (under SpecPath)                              *)
(***************************************************************************)
\* The request path names the content root itself.
IsRootRequest == request.path = <<>> \/ request.path = <<SLASH>>

\* The absolute path the handler of the current request resolves to.
ResolvedPath ==
  IF request.endpoint = "content" THEN ContentFullPath(request.path)
  ELSE IF IsRootRequest THEN CONTENT_DIR
  ELSE StructureFullPath(request.path)

\* The handler of the current request got as far as resolving the path.
Resolves ==
  \/ request.endpoint = "structure"
  \/ request.endpoint = "content" /\ PathExtname(request.path) # <<>>

\* C1: every path the structure and content handlers stat, list or read is
\* the content root or a true descendant of it, and a request whose resolved
\* path is outside the root is answered 400 'Invalid path'.
C1_PathsConfined ==
  Resolves =>
    /\ \A c \in touched : InsideRoot(c.path)
    /\ ~InsideRoot(ResolvedPath) =>
         response.status = 400 /\ response.error = "Invalid path"

\* The request path has a '..' segment.
HasTraversalSegment(p) ==
  \E i \in 1..Len(SplitSlash(p)) : SplitSlash(p)[i] = DOTDOT

\* C3: a request path with a '..' segment is answered 400 'Invalid path'
\* and no filesystem call is made for it.
C3_TraversalRejected ==
  Resolves /\ HasTraversalSegment(request.path) =>
    /\ response.status = 400
    /\ response.error = "Invalid path"
    /\ touched = {}

\* C7: for a request that passes path resolution, the structure listing
\* answers 404 'Directory not found' when the resolved path does not exist,
\* 400 'Path is not a directory' when it is a file, never with a listing, and
\* answers 200 only for an existing directory.
C7_StructureStatus ==
  request.endpoint = "structure" /\ (IsRootRequest \/ PassesSecurityCheck(ResolvedPath)) =>
    /\ FsStat(fs, ResolvedPath).err # "OK" =>
         /\ response.status = 404
         /\ response.error = "Directory not found"
         /\ ~response.listing
    /\ FsStat(fs, ResolvedPath).err = "OK" /\ ~FsStat(fs, ResolvedPath).isDirectory =>
         /\ response.status = 400
         /\ response.error = "Path is not a directory"
         /\ ~response.listing
    /\ response.status = 200 =>
         FsStat(fs, ResolvedPath).err = "OK" /\ FsStat(fs, ResolvedPath).isDirectory

(***************************************************************************)
(* The listing of directories of varied content                            *)
(***************************************************************************)
\* Largest small order value given to an entry.
MaxOrder == 1

\* What the order key of a metadata block may hold.
RawOrders ==
  {Undefined, Null, NonNumeric, Num(MAX_SAFE_INTEGER)} \cup {Num(n) : n \in 0..MaxOrder}

\* The entry is not in the directory.
Absent == [t |-> "absent", n |-> 0]

OrderChoices == RawOrders \cup {Absent}

\* The names the content root may hold, in the order readdir returns them.
ListNames ==
  <<Str_x_html, Str_n_txt, Str_e_MD, Str_d, Str_c_md, Str_b, Str_a_md,
    Str_metadata, Str_hid>>

\* A content root holding a.md, the directory b and c.md when they are given
\* an order choice other than Absent (b's order is in b/.metadata); n.txt,
\* the hidden directory .h and the root's own .metadata when excluded; the
\* directory d, e.MD and x.html when others.
ListTreeOf(oa, ob, oc, names) ==
  [k \in {<<>>, <<Str_r>>, <<Str_r, Str_b, Str_metadata>>}
         \cup {<<Str_r, names[i]>> : i \in 1..Len(names)} |->
     IF k = <<>> THEN Dir(<<Str_r>>)
     ELSE IF k = <<Str_r>> THEN Dir(names)
     ELSE IF k = <<Str_r, Str_a_md>> THEN File(oa, FALSE, <<>>)
     ELSE IF k = <<Str_r, Str_c_md>> THEN File(oc, FALSE, <<>>)
     ELSE IF k = <<Str_r, Str_b>> THEN Dir(<<Str_metadata>>)
     ELSE IF k = <<Str_r, Str_b, Str_metadata>> THEN File(ob, FALSE, <<>>)
     ELSE IF k \in {<<Str_r, Str_d>>, <<Str_r, Str_hid>>} THEN Dir(<<>>)
     ELSE PlainFile]

ListTree(oa, ob, oc, excluded, others) ==
  ListTreeOf(oa, ob, oc,
    SelectSeq(ListNames, LAMBDA name :
      IF name = Str_a_md THEN oa # Absent
      ELSE IF name = Str_b THEN ob # Absent
      ELSE IF name = Str_c_md THEN oc # Absent
      ELSE IF name \in {Str_n_txt, Str_hid, Str_metadata} THEN excluded
      ELSE others))

\* The request paths of the listings: the root, spelled both ways, and b.
ListPaths == {<<>>, <<SLASH>>, Str_b}

InitList ==
  /\ fs \in {ListTree(oa, ob, oc, excluded, others) :
               oa \in OrderChoices, ob \in OrderChoices, oc \in OrderChoices,
               excluded \in BOOLEAN, others \in BOOLEAN}
  /\ variant = "path"
  /\ request = NoRequest
  /\ response = NoResponse
  /\ touched = {}
  /\ cache = EmptyCache
  /\ now = 0

\* GET /api/structure/<path> for one of the listing paths
ListRequest ==
  /\ request = NoRequest
  /\ \E p \in ListPaths :
       Answer("structure", p, HandleContentStructure(fs, p))
  /\ UNCHANGED <<fs, variant, cache, now>>

NextList == ListRequest \/ Finish

SpecList == InitList /\ [][NextList]_vars

(***************************************************************************)
(* Claims on the listing (under SpecList)                                  *)
(***************************************************************************)
\* The current response is a listing.
IsListing == request.endpoint = "structure" /\ response.listing

\* C4: in a listing every item with an order comes before every item
\* without one, and the items with an order are in ascending order.
C4_OrderedFirst ==
  IsListing =>
    \A i, j \in 1..Len(response.items) :
      i < j =>
        /\ response.items[j].order # <<>> => response.items[i].order # <<>>
        /\ response.items[i].order # <<>> /\ response.items[j].order # <<>> =>
             response.items[i].order[1] <= response.items[j].order[1]

\* C5: two items with the same order, or both without one, are listed in
\* ascending name order, whichever of them is a directory.
C5_TiesByNameOnly ==
  IsListing =>
    \A i, j \in 1..Len(response.items) :
      i < j /\ response.items[i].order = response.items[j].order =>
        LocaleCompare(response.items[i].name, response.items[j].name) < 0

\* C5, amended: two items with the same order, or both without one, are
\* listed with a directory before a file, and in ascending name order when
\* both are directories or both are files.
C5_TiesByTypeThenName ==
  IsListing =>
    \A i, j \in 1..Len(response.items) :
      i < j /\ response.items[i].order = response.items[j].order =>
        \/ response.items[i].isDirectory /\ ~response.items[j].isDirectory
        \/ /\ response.items[i].isDirectory = response.items[j].isDirectory
           /\ LocaleCompare(response.items[i].name, response.items[j].name) < 0

\* A listing where a directory and a file have the same order and the
\* directory, whose name is the greater, is listed first, and where two
\* files have the same order.
C5_Witness ==
  /\ IsListing
  /\ \E i, j \in 1..Len(response.items) :
       /\ i < j
       /\ response.items[i].order = response.items[j].order
       /\ response.items[i].order # <<>>
       /\ response.items[i].isDirectory /\ ~response.items[j].isDirectory
       /\ LocaleCompare(response.items[i].name, response.items[j].name) > 0
  /\ \E i, j \in 1..Len(response.items) :
       /\ i < j
       /\ response.items[i].order = response.items[j].order
       /\ ~response.items[i].isDirectory /\ ~response.items[j].isDirectory

\* The entries of the directory the current request lists.
ListedEntries == FsReaddir(fs, ResolvedPath).entries

\* C6: a listing of a directory succeeds whatever entries the directory
\* holds, and every item of it is a directory or a file with an allowed
\* extension, has no leading dot in its name and is not .metadata.
C6_OnlyAllowedItems ==
  request.endpoint = "structure" /\ FsStat(fs, ResolvedPath).isDirectory =>
    /\ response.status = 200
    /\ \A i \in 1..Len(response.items) :
         /\ \/ response.items[i].isDirectory
            \/ ToLowerCase(PathExtname(response.items[i].name)) \in contentExtensions
         /\ response.items[i].name[1] # DOT
         /\ response.items[i].name # Str_metadata

\* A listing with items of a directory that holds a file with another
\* extension, a hidden directory and a .metadata file.
C6_Witness ==
  /\ IsListing
  /\ response.items # <<>>
  /\ \E i, j, k \in 1..Len(ListedEntries) :
       /\ ListedEntries[i].name = Str_n_txt
       /\ ListedEntries[j].name = Str_hid /\ ListedEntries[j].isDirectory
       /\ ListedEntries[k].name = Str_metadata

(***************************************************************************)
(* The related-documents service                                           *)
(***************************************************************************)
\* DEFAULT_CACHE_TTL, in milliseconds
DEFAULT_CACHE_TTL == 300000

\* The size of relatedDocsCache above which cacheRelatedDocs sweeps it.
CACHE_SWEEP_SIZE == 100

Min(a, b) == IF a < b THEN a ELSE b

\* A slice that keeps the whole array.
SliceAll(s, limit) == s

\* array.slice(0, limit) for a limit that is not negative
Slice(s, limit) == Take(s, Min(limit, Len(s)))

\* s.replace(/^\/+|\/+$/g, '')
StripTrailingSlashes(s) == Take(s, Len(s) - TrailingRun(s, {SLASH}))

StripSlashes(s) == StripTrailingSlashes(Drop(s, LeadingRun(s, {SLASH})))

\* if (!normalizedPath.endsWith('.md')) normalizedPath = `${normalizedPath}.md`
EnsureMd(s) == IF EndsWith(s, Str_md) THEN s ELSE s \o Str_md

\* The normalization of documentPath in findRelatedDocumentsForPath.
NormalizeDocumentPath(documentPath) ==
  EnsureMd(StripSlashes(ReplaceBackslashes(documentPath)))

\* s.replace(/\\/g, '/').replace(/\.md$/i, '')
StripMd(s) ==
  IF EndsWith(ToLowerCase(s), Str_md) THEN Take(s, Len(s) - Len(Str_md)) ELSE s

NormalizeForCompare(p) == StripMd(ReplaceBackslashes(p))

\* The result of a step that gathers files: the error that ended it, if
\* any, the files gathered and the filesystem calls made.
Gathered(files) == [err |-> "OK", files |-> files, calls |-> {}]

AddCalls(calls, r) == [r EXCEPT !.calls = @ \cup calls]

Chain(head, rest) ==
  [err |-> rest.err, files |-> head.files \o rest.files,
   calls |-> head.calls \cup rest.calls]

\* getAllMarkdownFiles(dir): the markdown files under CONTENT_DIR/dir, depth
\* first in readdir order, as paths relative to the content root.  A readdir
\* that fails ends the whole enumeration with its error.
RECURSIVE GetAllMarkdownFiles(_, _)
RECURSIVE MarkdownFilesOf(_, _, _)
EntryFiles(tree, relativePath, item) ==
  IF item.isDirectory THEN GetAllMarkdownFiles(tree, relativePath)
  ELSE IF EndsWith(item.name, Str_md) THEN Gathered(<<ReplaceBackslashes(relativePath)>>)
  ELSE Gathered(<<>>)

MarkdownFilesAfter(tree, dir, items, head) ==
  IF head.err # "OK" THEN head
  ELSE Chain(head, MarkdownFilesOf(tree, dir, Tail(items)))

MarkdownFilesOf(tree, dir, items) ==
  IF items = <<>> THEN Gathered(<<>>)
  ELSE MarkdownFilesAfter(tree, dir, items,
         EntryFiles(tree, PathJoin(ReplaceBackslashes(dir), items[1].name), items[1]))

MarkdownFilesRead(tree, dir, abs, listing) ==
  IF listing.err # "OK"
  THEN [err |-> listing.err, files |-> <<>>, calls |-> {Call("readdir", abs)}]
  ELSE AddCalls({Call("readdir", abs)}, MarkdownFilesOf(tree, dir, listing.entries))

MarkdownFilesAt(tree, dir, abs) == MarkdownFilesRead(tree, dir, abs, FsReaddir(tree, abs))

GetAllMarkdownFiles(tree, dir) == MarkdownFilesAt(tree, dir, PathJoin(CONTENT_DIR, dir))

\* The tags key of a metadata block: whether it is there, and its list.
TagsOf(node) == [hasTags |-> node.hasTags, tags |-> node.tags]

\* currentDocMetadata = {} when the target could not be read
NoMetadata == [hasTags |-> FALSE, tags |-> <<>>]

MetadataRead(read) == IF Parsed(read).err = "OK" THEN TagsOf(read.node) ELSE NoMetadata

\* An insertion that puts x before the elements of its own relevance.
RECURSIVE InsertBeforeEqual(_, _)
InsertBeforeEqual(s, x) ==
  IF s = <<>> THEN <<x>>
  ELSE IF s[Len(s)].relevance - x.relevance <= 0
  THEN Append(InsertBeforeEqual(Take(s, Len(s) - 1), x), s[Len(s)])
  ELSE Append(s, x)

\* Insert x into s, sorted by descending relevance, after the elements it
\* does not precede.
RECURSIVE InsertByRelevance(_, _)
InsertByRelevance(s, x) ==
  IF s = <<>> THEN <<x>>
  ELSE IF s[Len(s)].relevance - x.relevance < 0
  THEN Append(InsertByRelevance(Take(s, Len(s) - 1), x), s[Len(s)])
  ELSE Append(s, x)

\* relatedDocs.sort((a, b) => b.relevance - a.relevance), a stable sort
RECURSIVE SortByRelevance(_)
SortByRelevance(s) ==
  IF s = <<>> THEN <<>>
  ELSE InsertByRelevance(SortByRelevance(Take(s, Len(s) - 1)), s[Len(s)])

\* The result of a step that gathers related documents.
Found(docs) == [docs |-> docs, calls |-> {}]

BothFound(head, rest) ==
  [docs |-> head.docs \o rest.docs, calls |-> head.calls \cup rest.calls]

\* One file of the loop of the path-based findRelatedDocuments
\* (related.service.js): skipped when it is spelled as the current document,
\* else pushed with relevance 2 in the current document's directory and 1
\* elsewhere.  The title is left out of the model.
PathCandidate(currentPath, filePath) ==
  IF NormalizeForCompare(filePath) = NormalizeForCompare(currentPath) THEN Found(<<>>)
  ELSE Found(<<[path |-> NormalizeForCompare(filePath),
                relevance |-> IF PathDirname(currentPath) = PathDirname(filePath)
                              THEN 2 ELSE 1]>>)

\* A candidate pushed whether or not it shares a tag.
SharedOrNot(filePath, commonTags) ==
  Found(<<[path |-> ReplaceBackslashes(StripMd(filePath)),
           commonTags |-> commonTags,
           commonTagsCount |-> Len(commonTags),
           relevance |-> Len(commonTags)]>>)

\* candidateTags.filter(tag => currentTags.includes(tag)), pushed when it is
\* not empty
Shared(filePath, commonTags) ==
  IF commonTags = <<>> THEN Found(<<>>)
  ELSE Found(<<[path |-> ReplaceBackslashes(StripMd(filePath)),
                commonTags |-> commonTags,
                commonTagsCount |-> Len(commonTags),
                relevance |-> Len(commonTags)]>>)

CommonTags(candidateTags, currentTags) ==
  SelectSeq(candidateTags,
            LAMBDA tag : \E i \in 1..Len(currentTags) : currentTags[i] = tag)

\* A candidate whose tags are used although its front matter did not parse.
TagCandidateReadUnchecked(filePath, currentMetadata, read) ==
  IF read.err # "OK" THEN Found(<<>>)
  ELSE IF ~read.node.hasTags \/ ~currentMetadata.hasTags THEN Found(<<>>)
  ELSE Shared(filePath, CommonTags(read.node.tags, currentMetadata.tags))

\* The candidate after its file has been read, in the tag-based variant.
TagCandidateRead(filePath, currentMetadata, read) ==
  IF Parsed(read).err # "OK" THEN Found(<<>>)
  ELSE IF ~read.node.hasTags \/ ~currentMetadata.hasTags THEN Found(<<>>)
  ELSE Shared(filePath, CommonTags(read.node.tags, currentMetadata.tags))

\* One file of the loop of the tag-based findRelatedDocuments.
TagCandidate(tree, currentPath, currentMetadata, filePath) ==
  IF NormalizeForCompare(filePath) = NormalizeForCompare(currentPath) THEN Found(<<>>)
  ELSE [TagCandidateRead(filePath, currentMetadata,
                         FsReadFile(tree, PathJoin(CONTENT_DIR, filePath)))
          EXCEPT !.calls = {Call("readFile", PathJoin(CONTENT_DIR, filePath))}]

\* A loop body that ranks by path whichever variant runs.
CandidateByPath(tree, kind, currentPath, currentMetadata, filePath) ==
  PathCandidate(currentPath, filePath)

Candidate(tree, kind, currentPath, currentMetadata, filePath) ==
  IF kind = "tags" THEN TagCandidate(tree, currentPath, currentMetadata, filePath)
  ELSE PathCandidate(currentPath, filePath)

RECURSIVE Candidates(_, _, _, _, _)
Candidates(tree, kind, currentPath, currentMetadata, files) ==
  IF files = <<>> THEN Found(<<>>)
  ELSE BothFound(Candidate(tree, kind, currentPath, currentMetadata, files[1]),
                 Candidates(tree, kind, currentPath, currentMetadata, Tail(files)))

RankedOf(found, limit) ==
  [docs |-> Slice(SortByRelevance(found.docs), limit), calls |-> found.calls]

\* findRelatedDocuments once the files are enumerated: an enumeration that
\* failed gives no documents.
FindRelatedAmong(tree, kind, currentPath, currentMetadata, limit, all) ==
  IF all.err # "OK" THEN [docs |-> <<>>, calls |-> all.calls]
  ELSE [RankedOf(Candidates(tree, kind, currentPath, currentMetadata, all.files), limit)
          EXCEPT !.calls = @ \cup all.calls]

\* An enumeration that starts at the directory of the document in both
\* variants.
FindRelatedDocumentsInDir(tree, kind, currentPath, documentDir, currentMetadata, limit) ==
  FindRelatedAmong(tree, kind, currentPath, currentMetadata, limit,
    GetAllMarkdownFiles(tree, IF documentDir = <<>> THEN <<DOT>> ELSE documentDir))

\* findRelatedDocuments(currentPath, documentDir, currentMetadata, limit):
\* the path-based service enumerates documentDir, the tag-based variant the
\* whole content root.
FindRelatedDocuments(tree, kind, currentPath, documentDir, currentMetadata, limit) ==
  FindRelatedAmong(tree, kind, currentPath, currentMetadata, limit,
    GetAllMarkdownFiles(tree, IF kind = "tags" THEN <<DOT>>
                              ELSE IF documentDir = <<>> THEN <<DOT>> ELSE documentDir))

\* relatedDocsCache.delete(key)
CacheDelete(c, key) == [k \in DOMAIN c \ {key} |-> c[k]]

\* A set that keeps the entry a key already has.
CacheSetIfAbsent(c, key, entry) ==
  [k \in DOMAIN c \cup {key} |-> IF k \in DOMAIN c THEN c[k] ELSE entry]

\* relatedDocsCache.set(key, entry)
CacheSet(c, key, entry) == [k \in DOMAIN c \cup {key} |-> IF k = key THEN entry ELSE c[k]]

\* An entry that expires when its age reaches the ttl.
ExpiredAtTtl(entry, t) == t - entry.timestamp >= entry.ttl

Expired(entry, t) == t - entry.timestamp > entry.ttl

\* A lookup that restarts the lifetime of the entry it serves.
GetCachedRelatedDocsSliding(c, t, documentPath, limit) ==
  IF documentPath \notin DOMAIN c THEN [hit |-> FALSE, data |-> <<>>, cache |-> c]
  ELSE IF Expired(c[documentPath], t)
  THEN [hit |-> FALSE, data |-> <<>>, cache |-> CacheDelete(c, documentPath)]
  ELSE [hit |-> TRUE, data |-> Slice(c[documentPath].data, limit),
        cache |-> CacheSet(c, documentPath, [c[documentPath] EXCEPT !.timestamp = t])]

\* getCachedRelatedDocs(documentPath, limit): null, or the cached list cut
\* to limit; an expired entry is deleted.
GetCachedRelatedDocs(c, t, documentPath, limit) ==
  IF documentPath \notin DOMAIN c THEN [hit |-> FALSE, data |-> <<>>, cache |-> c]
  ELSE IF Expired(c[documentPath], t)
  THEN [hit |-> FALSE, data |-> <<>>, cache |-> CacheDelete(c, documentPath)]
  ELSE [hit |-> TRUE, data |-> Slice(c[documentPath].data, limit), cache |-> c]

\* cleanupCache(): every expired entry is deleted.
CleanupCache(c, t) == [k \in {j \in DOMAIN c : ~Expired(c[j], t)} |-> c[k]]

\* A sweep that already runs at the sweep size.
SweepIfFull(c, t) ==
  IF Cardinality(DOMAIN c) >= CACHE_SWEEP_SIZE THEN CleanupCache(c, t) ELSE c

SweepIfLarge(c, t) ==
  IF Cardinality(DOMAIN c) > CACHE_SWEEP_SIZE THEN CleanupCache(c, t) ELSE c

\* A write that appends to the list the key already has.
CacheRelatedDocsMerged(c, t, documentPath, relatedDocs) ==
  SweepIfLarge(CacheSet(c, documentPath,
                 [timestamp |-> t,
                  data |-> IF documentPath \in DOMAIN c
                           THEN c[documentPath].data \o relatedDocs ELSE relatedDocs,
                  ttl |-> DEFAULT_CACHE_TTL]), t)

\* cacheRelatedDocs(documentPath, relatedDocs)
CacheRelatedDocs(c, t, documentPath, relatedDocs) ==
  SweepIfLarge(CacheSet(c, documentPath,
                 [timestamp |-> t, data |-> relatedDocs, ttl |-> DEFAULT_CACHE_TTL]), t)

\* What findRelatedDocumentsForPath returns, with the cache it leaves and
\* the filesystem calls it made.
ServiceError(error, c, calls) ==
  [error |-> error, related |-> <<>>, fromCache |-> FALSE, cache |-> c, calls |-> calls]

\* A result that is not written over an entry that has not expired.
ServiceFoundKeepingFresh(c, t, normalizedPath, found, calls) ==
  [error |-> "", related |-> found.docs, fromCache |-> FALSE,
   cache |-> IF normalizedPath \in DOMAIN c /\ ~Expired(c[normalizedPath], t)
             THEN c
             ELSE CacheRelatedDocs(c, t, normalizedPath, found.docs),
   calls |-> calls \cup found.calls]

ServiceFound(c, t, normalizedPath, found, calls) ==
  [error |-> "", related |-> found.docs, fromCache |-> FALSE,
   cache |-> CacheRelatedDocs(c, t, normalizedPath, found.docs),
   calls |-> calls \cup found.calls]

\* A computation that does not check that the document exists.
ComputeRelatedUnchecked(tree, kind, c, t, normalizedPath, fullDocumentPath, limit) ==
  ServiceFound(c, t, normalizedPath,
    FindRelatedDocuments(tree, kind, normalizedPath, PathDirname(normalizedPath),
                         MetadataRead(FsReadFile(tree, fullDocumentPath)), limit),
    {Call("readFile", fullDocumentPath)})

\* The computation after a cache miss.
ComputeRelated(tree, kind, c, t, normalizedPath, fullDocumentPath, limit) ==
  IF ~FsAccess(tree, fullDocumentPath)
  THEN ServiceError("Document not found", c, {Call("access", fullDocumentPath)})
  ELSE ServiceFound(c, t, normalizedPath,
         FindRelatedDocuments(tree, kind, normalizedPath, PathDirname(normalizedPath),
                              MetadataRead(FsReadFile(tree, fullDocumentPath)), limit),
         {Call("access", fullDocumentPath), Call("readFile", fullDocumentPath)})

AfterCacheCheck(tree, kind, t, normalizedPath, limit, cached) ==
  IF cached.hit
  THEN [error |-> "", related |-> cached.data, fromCache |-> TRUE,
        cache |-> cached.cache, calls |-> {}]
  ELSE ComputeRelated(tree, kind, cached.cache, t, normalizedPath,
                      PathJoin(CONTENT_DIR, normalizedPath), limit)

\* A service that consults the cache whatever skipCache is.
ForNormalizedPathCached(tree, kind, c, t, normalizedPath, limit, skipCache) ==
  AfterCacheCheck(tree, kind, t, normalizedPath, limit,
    GetCachedRelatedDocs(c, t, normalizedPath, limit))

ForNormalizedPath(tree, kind, c, t, normalizedPath, limit, skipCache) ==
  AfterCacheCheck(tree, kind, t, normalizedPath, limit,
    IF skipCache THEN [hit |-> FALSE, data |-> <<>>, cache |-> c]
    ELSE GetCachedRelatedDocs(c, t, normalizedPath, limit))

\* A service that never honours skipCache.
FindRelatedDocumentsForPathCached(tree, kind, c, t, documentPath, limit, skipCache) ==
  IF documentPath = <<>> THEN ServiceError("Missing document path", c, {})
  ELSE AfterCacheCheck(tree, kind, t, NormalizeDocumentPath(documentPath), limit,
         GetCachedRelatedDocs(c, t, NormalizeDocumentPath(documentPath), limit))

\* findRelatedDocumentsForPath(documentPath, limit, skipCache)
FindRelatedDocumentsForPath(tree, kind, c, t, documentPath, limit, skipCache) ==
  IF documentPath = <<>> THEN ServiceError("Missing document path", c, {})
  ELSE ForNormalizedPath(tree, kind, c, t, NormalizeDocumentPath(documentPath),
                         limit, skipCache)

\* A status mapping that answers every error with 500.
RelatedStatusPlain(error) == IF error = "" THEN 200 ELSE 500

\* RelatedController.getRelatedDocuments: the status of the response.
RelatedStatus(error) ==
  IF error = "" THEN 200
  ELSE IF error = "Document not found" THEN 404
  ELSE IF error = "Missing document path" THEN 400
  ELSE 500

GetRelatedDocuments(result) ==
  [status |-> RelatedStatus(result.error), error |-> result.error,
   related |-> result.related, fromCache |-> result.fromCache]

(***************************************************************************)
(* Related-document requests against documents of varied tags              *)
(***************************************************************************)
\* Largest limit a request asks for.
MaxLimit == 3

Str_a == <<"a">>
Str_c == <<"c">>
Tag_x == "x"
Tag_y == "y"

\* What the tags key of a document may hold: nothing, or a list.
TagChoices ==
  {NoMetadata} \cup
  {[hasTags |-> TRUE, tags |-> ts] :
     ts \in {<<>>, <<Tag_x>>, <<Tag_x, Tag_x>>, <<Tag_x, Tag_y>>}}

Doc(choice) == File(Undefined, choice.hasTags, choice.tags)

\* The content root /r with a.md, b.md and d/c.md, whose tags are given, and
\* beside it /rx with a.md.
RelatedTree(ta, tb, tc) ==
  (<<>> :> Dir(<<Str_r, Str_rx>>)) @@
  (<<Str_r>> :> Dir(<<Str_d, Str_a_md, Str_b_md>>)) @@
  (<<Str_r, Str_d>> :> Dir(<<Str_c_md>>)) @@
  (<<Str_r, Str_d, Str_c_md>> :> Doc(tc)) @@
  (<<Str_r, Str_a_md>> :> Doc(ta)) @@
  (<<Str_r, Str_b_md>> :> Doc(tb)) @@
  (<<Str_rx>> :> Dir(<<Str_a_md>>)) @@
  (<<Str_rx, Str_a_md>> :> Doc([hasTags |-> TRUE, tags |-> <<Tag_x>>]))

\* The spellings of documentPath the requests use.
RelatedPaths ==
  {<<>>, Str_a, Str_a_md, <<SLASH>> \o Str_a \o <<SLASH>>, <<DOT, SLASH>> \o Str_a,
   Str_b, Str_zz, Str_d,
   Str_d \o <<SLASH>> \o Str_c, Str_d \o <<BSLASH>> \o Str_c,
   Str_d \o <<SLASH, SLASH>> \o Str_c,
   Str_d \o <<SLASH>> \o DOTDOT \o <<SLASH>> \o Str_a,
   DOTDOT \o <<SLASH>> \o Str_rx \o <<SLASH>> \o Str_a}

InitRelated ==
  /\ fs \in {RelatedTree(ta, tb, tc) :
               ta \in TagChoices, tb \in TagChoices, tc \in TagChoices}
  /\ variant \in {"path", "tags"}
  /\ request = NoRequest
  /\ response = NoResponse
  /\ touched = {}
  /\ cache = EmptyCache
  /\ now = 0

\* The service has answered the request with result.
AnswerRelated(p, limit, skipCache, result) ==
  /\ request' = [endpoint |-> "related", path |-> p, limit |-> limit,
                 skipCache |-> skipCache]
  /\ response' = GetRelatedDocuments(result)
  /\ touched' = result.calls
  /\ cache' = result.cache

\* GET /api/related?path=<p>&limit=<limit>&skipCache=<skipCache>
RelatedRequest ==
  /\ request = NoRequest
  /\ \E p \in RelatedPaths, limit \in 0..MaxLimit, skipCache \in BOOLEAN :
       AnswerRelated(p, limit, skipCache,
         FindRelatedDocumentsForPath(fs, variant, cache, now, p, limit, skipCache))
  /\ UNCHANGED <<fs, variant, now>>

\* The server process is started again: the cache, kept in memory, is empty.
Restart ==
  /\ request # NoRequest
  /\ request' = NoRequest
  /\ response' = NoResponse
  /\ touched' = {}
  /\ cache' = EmptyCache
  /\ UNCHANGED <<fs, variant, now>>

NextRelated == RelatedRequest \/ Restart

SpecRelated == InitRelated /\ [][NextRelated]_vars

(***************************************************************************)
(* Claims on the related-documents service (under SpecRelated)              *)
(***************************************************************************)
\* The current response is a list of related documents.
IsRelated == request.endpoint = "related" /\ response.status = 200

\* The node of the document a path relative to the content root names.
DocumentAt(p) == FsReadFile(fs, PathJoin(CONTENT_DIR, p))

\* The target document of the current request.
Target == DocumentAt(NormalizeDocumentPath(request.path))

\* The document a returned item stands for.
ItemDocument(item) == DocumentAt(item.path \o Str_md)

\* The tags of a document, as a set.
TagSet(read) ==
  IF read.err = "OK" /\ read.node.hasTags
  THEN {read.node.tags[i] : i \in 1..Len(read.node.tags)}
  ELSE {}

\* C2: every path the related-documents service checks, reads or enumerates
\* is the content root or a true descendant of it.
C2_RelatedConfined ==
  request.endpoint = "related" => \A c \in touched : InsideRoot(c.path)

C9_TargetExcluded ==
  IsRelated =>
    \A i \in 1..Len(response.related) :
      Walk(fs, PathJoin(CONTENT_DIR, response.related[i].path \o Str_md)).key
        # Walk(fs, PathJoin(CONTENT_DIR, NormalizeDocumentPath(request.path))).key

\* C10: every returned document carries commonTags, the tags it shares with
\* the target, each once, and its relevance and commonTagsCount are the
\* number of those tags.
C10_CommonTagsIsIntersection ==
  IsRelated =>
    \A i \in 1..Len(response.related) :
      /\ "commonTags" \in DOMAIN response.related[i]
      /\ \A j, k \in 1..Len(response.related[i].commonTags) :
           response.related[i].commonTags[j] = response.related[i].commonTags[k] => j = k
      /\ {response.related[i].commonTags[j] : j \in 1..Len(response.related[i].commonTags)}
           = TagSet(ItemDocument(response.related[i])) \cap TagSet(Target)
      /\ response.related[i].commonTagsCount
           = Cardinality(TagSet(ItemDocument(response.related[i])) \cap TagSet(Target))
      /\ response.related[i].relevance = response.related[i].commonTagsCount

\* The files the enumeration of the current request discovers, in order.
Discovered ==
  GetAllMarkdownFiles(fs,
    IF variant = "tags" THEN <<DOT>>
    ELSE PathDirname(NormalizeDocumentPath(request.path))).files

\* The place of a returned path in the order of discovery.
DiscoveryIndex(path) ==
  CHOOSE i \in 1..Len(Discovered) : NormalizeForCompare(Discovered[i]) = path

\* C11: the returned list is in non-increasing order of relevance, and two
\* documents of equal relevance are in the order the enumeration discovered
\* them.
C11_SortedStable ==
  IsRelated =>
    \A i, j \in 1..Len(response.related) :
      i < j =>
        /\ response.related[i].relevance >= response.related[j].relevance
        /\ response.related[i].relevance = response.related[j].relevance =>
             DiscoveryIndex(response.related[i].path)
               < DiscoveryIndex(response.related[j].path)

\* Two returned documents of equal relevance, the first with the greater
\* name: the order of discovery, not of names.
C11_Witness ==
  /\ IsRelated
  /\ \E i, j \in 1..Len(response.related) :
       /\ i < j
       /\ response.related[i].relevance = response.related[j].relevance
       /\ LocaleCompare(response.related[i].path, response.related[j].path) > 0

(***************************************************************************)
(* Related-document requests over time: the cache                          *)
(***************************************************************************)
\* Largest limit a request of the cache runs asks for.
MaxCacheLimit == 2

\* Number of times the clock advances.
MaxTicks == 2

\* The clock advances by the time to live of an entry.
TickStep == DEFAULT_CACHE_TTL

\* The content root with a.md (tags x, y), b.md (tag x) and d/c.md (tags
\* x, x).
CacheTree ==
  RelatedTree([hasTags |-> TRUE, tags |-> <<Tag_x, Tag_y>>],
              [hasTags |-> TRUE, tags |-> <<Tag_x>>],
              [hasTags |-> TRUE, tags |-> <<Tag_x, Tag_x>>])

\* The tree without the entry name of the directory dirKey.
RemoveEntry(tree, dirKey, name) ==
  [k \in DOMAIN tree \ {Append(dirKey, name)} |->
     IF k = dirKey
     THEN [tree[k] EXCEPT !.entries = SelectSeq(@, LAMBDA e : e # name)]
     ELSE tree[k]]

\* The values of the path parameter in the cache runs.
CachePaths == {<<>>, Str_a, Str_b}

InitCache ==
  /\ fs = CacheTree
  /\ variant \in {"path", "tags"}
  /\ request = NoRequest
  /\ response = NoResponse
  /\ touched = {}
  /\ cache = EmptyCache
  /\ now = 0

\* GET /api/related?path=<p>&limit=<limit>&skipCache=<skipCache>
CacheRequest ==
  /\ request = NoRequest
  /\ \E p \in CachePaths, limit \in 0..MaxCacheLimit, skipCache \in BOOLEAN :
       AnswerRelated(p, limit, skipCache,
         FindRelatedDocumentsForPath(fs, variant, cache, now, p, limit, skipCache))
  /\ UNCHANGED <<fs, variant, now>>

\* GET /api/related?path=a&path=b: url.parse gives the repeated parameter as
\* an array, documentPath.replace throws and the service's catch answers.
ArrayPathRequest ==
  /\ request = NoRequest
  /\ request' = [endpoint |-> "related", path |-> Str_a, limit |-> 1,
                 skipCache |-> FALSE, pathIsArray |-> TRUE]
  /\ response' = GetRelatedDocuments(
                   ServiceError("Failed to get related documents", cache, {}))
  /\ touched' = {}
  /\ UNCHANGED <<fs, variant, cache, now>>

\* Time passes between requests.
Tick ==
  /\ request = NoRequest
  /\ now < MaxTicks * TickStep
  /\ now' = now + TickStep
  /\ UNCHANGED <<fs, variant, request, response, touched, cache>>

\* A document of the content root is deleted between requests.
RemoveDocument ==
  /\ request = NoRequest
  /\ \E name \in {Str_a_md, Str_b_md} :
       /\ <<Str_r, name>> \in DOMAIN fs
       /\ fs' = RemoveEntry(fs, <<Str_r>>, name)
  /\ UNCHANGED <<variant, request, response, touched, cache, now>>

NextCache == CacheRequest \/ ArrayPathRequest \/ Finish \/ Tick \/ RemoveDocument

SpecCache == InitCache /\ [][NextCache]_vars

(***************************************************************************)
(* Claims on the cache (under SpecCache)                                   *)
(***************************************************************************)
\* What a computation from the filesystem answers to the current request.
Recomputed ==
  GetRelatedDocuments(
    FindRelatedDocumentsForPath(fs, variant, EmptyCache, now, request.path,
                                request.limit, TRUE))

\* C12: a request served from the cache, the filesystem being unchanged,
\* gets the list a computation with its own limit would return, also when
\* the entry was written by a request with a smaller limit.
C12_CacheHoldsFullRanking ==
  IsRelated /\ response.fromCache /\ fs = CacheTree =>
    response.related = Recomputed.related

\* The step answers a request for a document path given as a string.
AnswersPath ==
  /\ request = NoRequest
  /\ request'.endpoint = "related"
  /\ "pathIsArray" \notin DOMAIN request'
  /\ request'.path # <<>>

\* The cache key of the request the step answers.
AnsweredKey == NormalizeDocumentPath(request'.path)

\* The cache, before the step, holds an entry for the request's key whose
\* age is at most its ttl.
HeldFresh ==
  /\ AnsweredKey \in DOMAIN cache
  /\ now - cache[AnsweredKey].timestamp <= cache[AnsweredKey].ttl

\* C13: a request that reads the cache is served from it if and only if the
\* cache holds an entry for the key with now - timestamp <= ttl; an entry
\* with now - timestamp > ttl is never served.
C13_ServedIffFresh ==
  [][AnswersPath /\ ~request'.skipCache => (response'.fromCache <=> HeldFresh)]_vars

\* A request served from an entry whose age is exactly its ttl.
C13_Witness ==
  /\ IsRelated
  /\ response.fromCache
  /\ now > 0
  /\ now - cache[NormalizeDocumentPath(request.path)].timestamp
       = cache[NormalizeDocumentPath(request.path)].ttl

\* C14: with skipCache false and a fresh entry the response is the first
\* limit elements of the cached list, with fromCache true and without any
\* filesystem call; with skipCache true the cache is not read: the response
\* is the one computed from the filesystem, with fromCache false.
C14_HitAndSkip ==
  [][AnswersPath =>
       /\ ~request'.skipCache /\ HeldFresh =>
            /\ response'.status = 200
            /\ response'.fromCache
            /\ response'.related
                 = SubSeq(cache[AnsweredKey].data, 1,
                          IF request'.limit < Len(cache[AnsweredKey].data)
                          THEN request'.limit ELSE Len(cache[AnsweredKey].data))
            /\ touched' = {}
       /\ request'.skipCache =>
            /\ ~response'.fromCache
            /\ response' = GetRelatedDocuments(
                 FindRelatedDocumentsForPath(fs, variant, EmptyCache, now,
                   request'.path, request'.limit, TRUE))]_vars

\* A request served from an entry that holds more documents than its limit.
C14_Witness ==
  /\ IsRelated
  /\ response.fromCache
  /\ touched = {}
  /\ Len(cache[NormalizeDocumentPath(request.path)].data) > request.limit
  /\ Len(response.related) = request.limit

\* The current request names, by a string, a document that does not exist.
TargetAbsent ==
  /\ request.endpoint = "related"
  /\ "pathIsArray" \notin DOMAIN request
  /\ request.path # <<>>
  /\ ~FsAccess(fs, PathJoin(CONTENT_DIR, NormalizeDocumentPath(request.path)))

NotFoundResponse ==
  /\ response.status = 404
  /\ response.error = "Document not found"
  /\ response.related = <<>>

\* C15: whenever the target file does not exist at the time of the request,
\* the answer is 404 'Document not found' with an empty list, also when the
\* cache holds a fresh entry for the path.
C15_AbsentIsNotFound == TargetAbsent => NotFoundResponse

\* The cache holds an entry for the current request's key whose age is at
\* most its ttl.
HoldsFresh ==
  /\ NormalizeDocumentPath(request.path) \in DOMAIN cache
  /\ now - cache[NormalizeDocumentPath(request.path)].timestamp
       <= cache[NormalizeDocumentPath(request.path)].ttl

\* C15, amended: when the target file does not exist at the time of the
\* request, the answer is 404 'Document not found' with an empty list,
\* unless the request reads the cache and the cache holds a fresh entry for
\* the path: then the entry is served, with status 200.
C15_AbsentIsNotFoundUnlessCached ==
  TargetAbsent =>
    IF ~request.skipCache /\ HoldsFresh
    THEN response.status = 200 /\ response.fromCache
    ELSE NotFoundResponse

\* A request with skipCache for a deleted document whose entry is still
\* fresh: it is answered 404.
C15_Witness ==
  /\ TargetAbsent
  /\ request.skipCache
  /\ HoldsFresh
  /\ NotFoundResponse

TargetWithoutTags ==
  /\ request.endpoint = "related"
  /\ request.path # <<>>
  /\ Target.err = "OK"
  /\ ~Target.node.hasTags

EmptySuccess ==
  /\ response.status = 200
  /\ response.error = ""
  /\ response.related = <<>>
  /\ ~response.fromCache

LaterTimes == {now + k * TickStep : k \in 0..MaxTicks}

\* The current request was made with skipCache and a string path.
SkippedCache ==
  /\ request.endpoint = "related"
  /\ "pathIsArray" \notin DOMAIN request
  /\ request.skipCache

\* C18: a second findRelated(path, limit, skipCache=true) call that follows
\* the current one on the same filesystem, with the cache the first call
\* left and at any later time, returns the response of the first: the same
\* items in the same order, whatever the cache held before the first call.
C18_SkipCacheIdempotent ==
  SkippedCache =>
    \A t \in LaterTimes :
      GetRelatedDocuments(
        FindRelatedDocumentsForPath(fs, variant, cache, t, request.path,
                                    request.limit, TRUE)) = response

\* A call with skipCache and the largest limit, made after the clock has
\* advanced and a document has been deleted: it ranks one document and
\* leaves that list in the cache.
C18_Witness ==
  /\ SkippedCache
  /\ IsRelated
  /\ now > 0
  /\ fs # CacheTree
  /\ Len(response.related) = 1
  /\ request.limit = MaxCacheLimit
  /\ cache[NormalizeDocumentPath(request.path)].data = response.related

\* The step answers a request that writes a new entry for key k.
SetsKey(k) ==
  /\ AnswersPath
  /\ AnsweredKey = k
  /\ response'.status = 200
  /\ ~response'.fromCache
  /\ k \in DOMAIN cache'
  /\ cache'[k].timestamp = now
  /\ cache'[k].ttl = DEFAULT_CACHE_TTL
  /\ cache'[k].data = response'.related

\* The step answers a request that looks key k up in the cache.
GetsKey(k) == AnswersPath /\ AnsweredKey = k /\ ~request'.skipCache

\* The step writes an entry into a cache that is then larger than the
\* sweep size, which runs cleanupCache.
Sweeps ==
  /\ AnswersPath
  /\ SetsKey(AnsweredKey)
  /\ Cardinality(DOMAIN cache \cup {AnsweredKey}) > CACHE_SWEEP_SIZE

\* C20: the entry of a key changes only through a new set, which stamps it
\* with the current time; an entry is removed only when it is expired, by a
\* get for its own key (or by the sweep of a set on a large cache); a request
\* served from the cache found its entry not expired and leaves the whole
\* cache, timestamps and ttls included, as it was; an expired entry that is
\* kept stays expired.
C20_EntryLifecycle ==
  [][/\ \A k \in DOMAIN cache :
          /\ k \in DOMAIN cache' /\ cache'[k] # cache[k] => SetsKey(k)
          /\ k \notin DOMAIN cache' =>
               /\ now - cache[k].timestamp > cache[k].ttl
               /\ GetsKey(k) \/ Sweeps
          /\ now - cache[k].timestamp > cache[k].ttl
               /\ k \in DOMAIN cache' /\ cache'[k] = cache[k] =>
               now' - cache'[k].timestamp > cache'[k].ttl
     /\ \A k \in DOMAIN cache' \ DOMAIN cache : SetsKey(k)
     /\ AnswersPath /\ response'.fromCache =>
          /\ cache' = cache
          /\ GetsKey(AnsweredKey)
          /\ AnsweredKey \in DOMAIN cache
          /\ now - cache[AnsweredKey].timestamp <= cache[AnsweredKey].ttl]_vars

\* A get for the key of a.md missed after two lifetimes and a new entry was
\* set with the current time, while the expired entry of b.md, written at
\* time 0, is still in the cache.
C20_Witness ==
  /\ IsRelated
  /\ request.path = Str_a
  /\ ~request.skipCache
  /\ ~response.fromCache
  /\ now = 2 * TickStep
  /\ cache[NormalizeDocumentPath(Str_a)].timestamp = now
  /\ NormalizeDocumentPath(Str_b) \in DOMAIN cache
  /\ cache[NormalizeDocumentPath(Str_b)].timestamp = 0

(***************************************************************************)
(* Concurrent requests for one key.  findRelatedDocumentsForPath is an     *)
(* async function: it runs on the single thread of the event loop and      *)
(* gives the thread up at each await.  A step below is the code between    *)
(* two awaits.  In this specification request and response are functions   *)
(* of the request's number.                                                *)
(***************************************************************************)
\* Number of requests in flight.
MaxRequests == 3

Requests == 1..MaxRequests

\* The key of every request: path=a.
ConcurrentKey == NormalizeDocumentPath(Str_a)

ConcurrentFullPath == PathJoin(CONTENT_DIR, ConcurrentKey)

\* The filesystem of these runs is CacheTree: what the calls of a request
\* give on it is computed once.
ConcurrentExists == FsAccess(CacheTree, ConcurrentFullPath)

ConcurrentMetadata == MetadataRead(FsReadFile(CacheTree, ConcurrentFullPath))

ConcurrentRankings ==
  {<<kind, limit,
     FindRelatedDocuments(CacheTree, kind, ConcurrentKey, PathDirname(ConcurrentKey),
                          ConcurrentMetadata, limit)>> :
     kind \in {"path", "tags"}, limit \in 1..MaxCacheLimit}

ConcurrentRanking(kind, limit) ==
  (CHOOSE t \in ConcurrentRankings : t[1] = kind /\ t[2] = limit)[3]

\* fs.access(fullDocumentPath)
KeyExists(tree) ==
  IF tree = CacheTree THEN ConcurrentExists ELSE FsAccess(tree, ConcurrentFullPath)

\* fs.readFile(fullDocumentPath) and matter(content)
KeyMetadata(tree) ==
  IF tree = CacheTree THEN ConcurrentMetadata
  ELSE MetadataRead(FsReadFile(tree, ConcurrentFullPath))

\* findRelatedDocuments(normalizedPath, documentDir, currentDocMetadata, limit)
KeyRanking(tree, kind, metadata, limit) ==
  IF tree = CacheTree /\ metadata = ConcurrentMetadata
  THEN ConcurrentRanking(kind, limit)
  ELSE FindRelatedDocuments(tree, kind, ConcurrentKey, PathDirname(ConcurrentKey),
                            metadata, limit)

\* A request that has not arrived.  wrote and wroteAt record the rank and
\* the time of the request's cache write.
IdleRequest ==
  [pc |-> "idle", limit |-> 0, skipCache |-> FALSE, metadata |-> NoMetadata,
   docs |-> <<>>, wrote |-> 0, wroteAt |-> 0]

InitConcurrent ==
  /\ fs = CacheTree
  /\ variant \in {"path", "tags"}
  /\ request = [i \in Requests |-> IdleRequest]
  /\ response = [i \in Requests |-> NoResponse]
  /\ touched = {}
  /\ cache = EmptyCache
  /\ now = 0

\* Lines 21-63 with the result cached of the cache lookup: a hit returns,
\* a miss goes on to await fs.access.
BeginWith(i, limit, skipCache, cached) ==
  /\ cache' = cached.cache
  /\ request' = [request EXCEPT ![i] =
       [@ EXCEPT !.pc = IF cached.hit THEN "done" ELSE "access",
                 !.limit = limit, !.skipCache = skipCache]]
  /\ response' = [response EXCEPT ![i] =
       IF cached.hit
       THEN GetRelatedDocuments([error |-> "", related |-> cached.data,
                                 fromCache |-> TRUE])
       ELSE @]

\* Request i arrives; requests are numbered in the order of their arrival.
Begin(i) ==
  /\ request[i].pc = "idle"
  /\ \A j \in Requests : j < i => request[j].pc # "idle"
  /\ \E limit \in 1..MaxCacheLimit, skipCache \in BOOLEAN :
       BeginWith(i, limit, skipCache,
         IF skipCache THEN [hit |-> FALSE, data |-> <<>>, cache |-> cache]
         ELSE GetCachedRelatedDocs(cache, now, ConcurrentKey, limit))
  /\ UNCHANGED <<fs, variant, touched, now>>

\* await fs.access(fullDocumentPath) settles.
AccessSettles(i) ==
  /\ request[i].pc = "access"
  /\ touched' = touched \cup {Call("access", ConcurrentFullPath)}
  /\ request' = [request EXCEPT ![i].pc =
       IF KeyExists(fs) THEN "read" ELSE "done"]
  /\ response' = [response EXCEPT ![i] =
       IF KeyExists(fs) THEN @
       ELSE GetRelatedDocuments(ServiceError("Document not found", cache, {}))]
  /\ UNCHANGED <<fs, variant, cache, now>>

\* await fs.readFile(fullDocumentPath) settles.
ReadSettles(i) ==
  /\ request[i].pc = "read"
  /\ touched' = touched \cup {Call("readFile", ConcurrentFullPath)}
  /\ request' = [request EXCEPT ![i] =
       [@ EXCEPT !.pc = "find",
                 !.metadata = KeyMetadata(fs)]]
  /\ UNCHANGED <<fs, variant, response, cache, now>>

FindSettlesWith(i, found) ==
  /\ touched' = touched \cup found.calls
  /\ request' = [request EXCEPT ![i] = [@ EXCEPT !.pc = "write", !.docs = found.docs]]

\* A scan that settles only while no other request is scanning.
FindSettlesAlone(i) ==
  /\ request[i].pc = "find"
  /\ \A j \in Requests \ {i} : request[j].pc # "find"
  /\ FindSettlesWith(i, KeyRanking(fs, variant, request[i].metadata, request[i].limit))
  /\ UNCHANGED <<fs, variant, response, cache, now>>

\* The promise of findRelatedDocuments settles.
FindSettles(i) ==
  /\ request[i].pc = "find"
  /\ FindSettlesWith(i, KeyRanking(fs, variant, request[i].metadata, request[i].limit))
  /\ UNCHANGED <<fs, variant, response, cache, now>>

\* The rank of the next cache write.
NextWrite(rs, n) == Cardinality({j \in 1..n : rs[j].wrote > 0}) + 1

WriteWith(i, result) ==
  /\ cache' = result.cache
  /\ response' = [response EXCEPT ![i] = GetRelatedDocuments(result)]
  /\ request' = [request EXCEPT ![i] =
       [@ EXCEPT !.pc = "done", !.wrote = NextWrite(request, MaxRequests),
                 !.wroteAt = now]]

\* Lines 93-100: cacheRelatedDocs, then the return.
WriteAndReturn(i) ==
  /\ request[i].pc = "write"
  /\ WriteWith(i, ServiceFound(cache, now, ConcurrentKey,
                               [docs |-> request[i].docs, calls |-> {}], {}))
  /\ UNCHANGED <<fs, variant, touched, now>>

\* Time passes while requests wait.
Elapse ==
  /\ now < MaxTicks * TickStep
  /\ now' = now + TickStep
  /\ UNCHANGED <<fs, variant, request, response, touched, cache>>

NextConcurrent ==
  \/ \E i \in Requests : Begin(i)
  \/ \E i \in Requests : AccessSettles(i)
  \/ \E i \in Requests : ReadSettles(i)
  \/ \E i \in Requests : FindSettles(i)
  \/ \E i \in Requests : WriteAndReturn(i)
  \/ Elapse

SpecConcurrent == InitConcurrent /\ [][NextConcurrent]_vars

(***************************************************************************)
(* Claims on concurrent requests (under SpecConcurrent)                    *)
(***************************************************************************)
Writers == {i \in Requests : request[i].wrote > 0}

LastWriter == CHOOSE i \in Writers : \A j \in Writers : request[j].wrote <= request[i].wrote

\* No request is between its arrival and its return.
AllComplete == \A i \in Requests : request[i].pc \in {"idle", "done"}

\* Every request that missed has returned the ranking it computed itself,
\* with its own limit, and fromCache false.
OwnRanking ==
  \A i \in Requests :
    request[i].pc = "done" /\ request[i].wrote > 0 =>
      /\ response[i].status = 200
      /\ ~response[i].fromCache
      /\ response[i].related
           = FindRelatedDocuments(fs, variant, ConcurrentKey, PathDirname(ConcurrentKey),
               MetadataRead(FsReadFile(fs, ConcurrentFullPath)), request[i].limit).docs

\* Once all requests are complete, the cache holds one entry, that of the
\* last write.
LastWriteWins ==
  AllComplete /\ Writers # {} =>
    /\ DOMAIN cache = {ConcurrentKey}
    /\ cache[ConcurrentKey].data = response[LastWriter].related
    /\ cache[ConcurrentKey].timestamp = request[LastWriter].wroteAt

\* A step that changes the cache is the whole check-and-delete of one
\* arriving request or the whole write of one returning request.
CacheStepIsAtomic ==
  cache' # cache =>
    \E i \in Requests :
      \/ /\ request[i].pc = "idle" /\ request'[i].pc = "access"
         /\ ~request'[i].skipCache
         /\ ConcurrentKey \in DOMAIN cache
         /\ now - cache[ConcurrentKey].timestamp > cache[ConcurrentKey].ttl
         /\ cache' = EmptyCache
      \/ /\ request[i].pc = "write" /\ request'[i].pc = "done"
         /\ DOMAIN cache' = {ConcurrentKey}
         /\ cache'[ConcurrentKey]
              = [timestamp |-> now, data |-> request[i].docs, ttl |-> DEFAULT_CACHE_TTL]
         /\ response'[i].related = request[i].docs

\* C19: in every interleaving of requests for the same key at the awaits,
\* each request that misses returns the ranking it computed, with fromCache
\* false; the cache changes only by a whole check-and-delete or a whole
\* write; and once all requests are complete the cache holds exactly one
\* entry for the key, the one written last.
C19_LastWriteWins ==
  /\ [](OwnRanking /\ LastWriteWins)
  /\ [][CacheStepIsAtomic]_vars

\* Two requests that read the cache both missed and computed different
\* rankings; the request that arrived first wrote last, and its list is the
\* one the cache holds.
C19_Witness ==
  /\ AllComplete
  /\ request[1].pc = "done" /\ request[2].pc = "done"
  /\ ~request[1].skipCache /\ ~request[2].skipCache
  /\ ~response[1].fromCache /\ ~response[2].fromCache
  /\ request[1].wrote > request[2].wrote
  /\ request[2].wrote > 0
  /\ response[1].related # response[2].related
  /\ cache[ConcurrentKey].data = response[1].related

(***************************************************************************)
(* A cache near its sweep size.  cacheRelatedDocs is applied to caches of  *)
(* about a hundred entries: the state after that many documents have been  *)
(* asked for.                                                              *)
(***************************************************************************)
\* Number of entries of the first cache that were written one lifetime
\* before the others, at most.
MaxOld == 3

\* Entries of the first cache.
BaseEntries == CACHE_SWEEP_SIZE - 2

\* The key of the i-th document: seven letters and .md.
SweepKey(i) == [j \in 1..7 |-> IF (i \div (2 ^ (j - 1))) % 2 = 1 THEN "b" ELSE "a"] \o Str_md

\* The documents whose entry is written: one of the first cache, three more.
WrittenKeys == {SweepKey(1)} \cup {SweepKey(BaseEntries + i) : i \in 1..3}

\* The lists written.
SweepDocs == {<<>>, <<[path |-> Str_b, relevance |-> 2], [path |-> Str_c, relevance |-> 1]>>}

BaseCache(old) ==
  [k \in {SweepKey(i) : i \in 1..BaseEntries} |->
     [timestamp |-> IF \E i \in 1..old : k = SweepKey(i) THEN 0 ELSE TickStep,
      data |-> <<>>, ttl |-> DEFAULT_CACHE_TTL]]

InitSweep ==
  /\ fs = CacheTree
  /\ variant = "path"
  /\ request = NoRequest
  /\ response = NoResponse
  /\ touched = {}
  /\ \E old \in 0..MaxOld : cache = BaseCache(old)
  /\ now = TickStep

\* cacheRelatedDocs(key, docs)
SetEntry ==
  /\ \E key \in WrittenKeys, docs \in SweepDocs :
       /\ request' = [endpoint |-> "set", path |-> key, docs |-> docs]
       /\ cache' = CacheRelatedDocs(cache, now, key, docs)
  /\ UNCHANGED <<fs, variant, response, touched, now>>

\* Time passes between writes.
SweepTick ==
  /\ now < (MaxTicks + 1) * TickStep
  /\ now' = now + TickStep
  /\ UNCHANGED <<fs, variant, request, response, touched, cache>>

NextSweep == SetEntry \/ SweepTick

SpecSweep == InitSweep /\ [][NextSweep]_vars

(***************************************************************************)
(* Claims on the cache write (under SpecSweep)                             *)
(***************************************************************************)
\* The step is a cache write.
IsSet == now' = now /\ request'.endpoint = "set"

\* The keys of the cache once the entry is set, before any sweep.
KeysAfterSet == DOMAIN cache \cup {request'.path}

\* The entry of key j, before the step, is expired.
ExpiredBefore(j) == j \in DOMAIN cache /\ now - cache[j].timestamp > cache[j].ttl

\* C21: a cache write after which the cache counts more than 100 entries
\* leaves no expired entry and removes no fresh one, so that the count can
\* stay above 100; a write after which the count is at most 100 removes
\* nothing.
C21_SweepAboveSize ==
  [][IsSet =>
       IF Cardinality(KeysAfterSet) > 100
       THEN DOMAIN cache'
              = {j \in KeysAfterSet : j = request'.path \/ ~ExpiredBefore(j)}
       ELSE DOMAIN cache' = KeysAfterSet]_vars

\* A write made the cache larger than 100 and the sweep removed the expired
\* entry of the first document.
C21_Witness ==
  /\ request.endpoint = "set"
  /\ request.path = SweepKey(BaseEntries + 3)
  /\ cache[request.path].timestamp = now
  /\ SweepKey(1) \notin DOMAIN cache
  /\ SweepKey(BaseEntries + 1) \in DOMAIN cache

\* C22: a cache write for key k makes the entry of k {data, timestamp = now,
\* ttl}, whatever entry k had; a lookup of k right after it returns the
\* first limit elements of that data; the entry of any other key is as it
\* was, or removed by the sweep because it was expired.
C22_SetOverwrites ==
  [][IsSet =>
       /\ request'.path \in DOMAIN cache'
       /\ cache'[request'.path]
            = [timestamp |-> now, data |-> request'.docs, ttl |-> DEFAULT_CACHE_TTL]
       /\ \A limit \in 0..MaxCacheLimit :
            /\ GetCachedRelatedDocs(cache', now, request'.path, limit).hit
            /\ GetCachedRelatedDocs(cache', now, request'.path, limit).data
                 = SubSeq(request'.docs, 1,
                          IF limit < Len(request'.docs) THEN limit ELSE Len(request'.docs))
       /\ \A j \in DOMAIN cache \ {request'.path} :
            IF j \in DOMAIN cache' THEN cache'[j] = cache[j]
            ELSE ExpiredBefore(j) /\ Cardinality(KeysAfterSet) > 100
       /\ DOMAIN cache' \subseteq KeysAfterSet]_vars

\* The entry of the first document, written before with an empty list, now
\* holds the two documents of the last write and its time.
C22_Witness ==
  /\ request.endpoint = "set"
  /\ request.path = SweepKey(1)
  /\ Len(request.docs) = 2
  /\ cache[SweepKey(1)].data = request.docs
  /\ cache[SweepKey(1)].timestamp = now
  /\ now > TickStep

(***************************************************************************)
(* Claims on the enumeration (under SpecRelated)                           *)
(***************************************************************************)
\* The markdown documents under the content root, as node keys.
DocumentKeys ==
  {k \in DOMAIN fs : /\ Len(k) >= 2
                     /\ k[1] = Str_r
                     /\ fs[k].kind = "file"
                     /\ EndsWith(k[Len(k)], Str_md)}

\* The node key of the target of the current request.
TargetKey == Walk(fs, PathJoin(CONTENT_DIR, NormalizeDocumentPath(request.path))).key

\* The absolute path of the node with key k.
AbsoluteOf(k) == <<SLASH>> \o JoinSlash(k)

\* The scan looked at the document with key k: its directory was listed
\* and, where candidates are read, the document was read.
Considered(k) ==
  /\ \E c \in touched :
       /\ c.op = "readdir"
       /\ Walk(fs, c.path) = [err |-> "OK", key |-> SubSeq(k, 1, Len(k) - 1)]
  /\ variant = "tags" => Call("readFile", AbsoluteOf(k)) \in touched

\* The node key a path relative to the content root spells.
KeyOfRelative(path) == <<Str_r>> \o SplitSlash(path)

\* The place of name in the listing of the directory with key dirKey.
EntryIndex(dirKey, name) ==
  CHOOSE i \in 1..Len(fs[dirKey].entries) : fs[dirKey].entries[i] = name

\* The first place where the keys k1 and k2 differ.
ForkOf(k1, k2) ==
  CHOOSE n \in 1..Min(Len(k1), Len(k2)) :
    k1[n] # k2[n] /\ \A m \in 1..(n - 1) : k1[m] = k2[m]

ForkedBefore(k1, k2, n) ==
  EntryIndex(SubSeq(k1, 1, n - 1), k1[n]) < EntryIndex(SubSeq(k1, 1, n - 1), k2[n])

\* Document k1 comes before k2 in a depth-first walk that visits the
\* entries of each directory in listing order.
ListedBefore(k1, k2) == ForkedBefore(k1, k2, ForkOf(k1, k2))

\* The list names documents, each once, in depth-first listing order.
DepthFirstOnce(files) ==
  /\ \A i \in 1..Len(files) : KeyOfRelative(files[i]) \in DocumentKeys
  /\ \A i, j \in 1..Len(files) :
       i < j => /\ files[i] # files[j]
                /\ ListedBefore(KeyOfRelative(files[i]), KeyOfRelative(files[j]))

\* The current request was answered by a scan.
IsMiss == IsRelated /\ ~response.fromCache

RawOrderOf(item) ==
  IF ~item.isDirectory THEN fs[<<Str_r, item.name>>].order
  ELSE IF <<Str_r, item.name, Str_metadata>> \in DOMAIN fs
  THEN fs[<<Str_r, item.name, Str_metadata>>].order
  ELSE Undefined

\* The order key is missing, null or not a number.
Unusable(order) == order.t \in {"undefined", "null", "string"}

IsRootListing == IsListing /\ request.path \in {<<>>, <<SLASH>>}

\* C27: a listed entry whose order key is missing, null or not numeric has
\* no order and is placed after every item with a numeric order.
C27_UnusableOrderLast ==
  IsRootListing =>
    \A i, j \in 1..Len(response.items) :
      /\ Unusable(RawOrderOf(response.items[i]))
      /\ RawOrderOf(response.items[j]).t = "number"
      => /\ response.items[i].order = <<>>
         /\ j < i

(***************************************************************************)
(* Unreadable and malformed files.  The content root holds a.md, b.md and  *)
(* the directory d with c.md and, or not, its .metadata; every document    *)
(* has the tag x.                                                          *)
(***************************************************************************)
TaggedDoc(order) == File(order, TRUE, <<Tag_x>>)

\* fd, fm, fa, fb, fc: the faults of d, d/.metadata, a.md, b.md and d/c.md;
\* fm may also be "absent".
FaultTree(fd, fm, fa, fb, fc) ==
  (<<>> :> Dir(<<Str_r>>)) @@
  (<<Str_r>> :> Dir(<<Str_d, Str_a_md, Str_b_md>>)) @@
  (<<Str_r, Str_d>> :>
     Faulty(Dir(IF fm = "absent" THEN <<Str_c_md>> ELSE <<Str_metadata, Str_c_md>>), fd)) @@
  (<<Str_r, Str_d, Str_metadata>> :>
     Faulty(File(Num(1), FALSE, <<>>), IF fm = "absent" THEN "none" ELSE fm)) @@
  (<<Str_r, Str_d, Str_c_md>> :> Faulty(TaggedDoc(Undefined), fc)) @@
  (<<Str_r, Str_a_md>> :> Faulty(TaggedDoc(Num(2)), fa)) @@
  (<<Str_r, Str_b_md>> :> Faulty(TaggedDoc(Num(3)), fb))

FaultTrees ==
  {FaultTree(fd, fm, fa, fb, fc) :
     fd \in {"none", "EACCES"},
     fm \in {"none", "EACCES", "malformed", "absent"},
     fa \in {"none", "malformed"},
     fb \in {"none", "EACCES", "malformed"},
     fc \in {"none", "malformed"}}

\* The documents asked for: a and d/c.
FaultPaths == {Str_a, Str_d \o <<SLASH>> \o Str_c}

InitFault ==
  /\ fs \in FaultTrees
  /\ variant \in {"path", "tags"}
  /\ request = NoRequest
  /\ response = NoResponse
  /\ touched = {}
  /\ cache = EmptyCache
  /\ now = 0

\* GET /api/related?path=<p>&limit=<limit>&skipCache=<skipCache>
FaultRelatedRequest ==
  /\ request = NoRequest
  /\ \E p \in FaultPaths, limit \in 1..MaxCacheLimit, skipCache \in BOOLEAN :
       AnswerRelated(p, limit, skipCache,
         FindRelatedDocumentsForPath(fs, variant, cache, now, p, limit, skipCache))
  /\ UNCHANGED <<fs, variant, now>>

\* GET /api/structure/ and GET /api/structure/d
FaultListRequest ==
  /\ request = NoRequest
  /\ \E p \in {<<>>, Str_d} :
       Answer("structure", p, HandleContentStructure(fs, p))
  /\ UNCHANGED <<fs, variant, cache, now>>

NextFault == FaultRelatedRequest \/ FaultListRequest \/ Finish

SpecFault == InitFault /\ [][NextFault]_vars

(***************************************************************************)
(* Claims on failures (under SpecFault)                                    *)
(***************************************************************************)
\* The current request was answered by a scan of the documents.
Scanned == request.endpoint = "related" /\ ~response.fromCache

\* The directory the scan of the current request starts at, as a node key.
ScanRoot ==
  IF variant = "tags" \/ request.path = Str_a THEN <<Str_r>> ELSE <<Str_r, Str_d>>

\* The scan of the current request lists the directory d, which cannot be
\* listed.
EnumerationFails == fs[<<Str_r, Str_d>>].fault = "EACCES"

\* The path of the returned item that stands for the document with key k.
ItemPathOf(k) == StripMd(JoinSlash(Tail(k)))

Returned(k) == \E i \in 1..Len(response.related) : response.related[i].path = ItemPathOf(k)

\* The document with key k is in the scope of the scan and, where the
\* ranking is by tags, shares the tag of the target, whose front matter was
\* parsed.
Qualifies(k) ==
  /\ SubSeq(k, 1, Len(ScanRoot)) = ScanRoot
  /\ variant = "tags" => fs[TargetKey].fault = "none"

\* The document with key k cannot be read or parsed by the scan.
Fails(k) == variant = "tags" /\ fs[k].fault # "none"

\* C24: a candidate that cannot be read or parsed is skipped, and only it:
\* the request is answered with status 200 and every other qualifying
\* candidate is returned.
C24_OnlyFailedSkipped ==
  Scanned /\ ~EnumerationFails /\ request.limit >= 2 =>
    /\ response.status = 200
    /\ \A k \in DocumentKeys \ {TargetKey} :
         /\ Fails(k) => ~Returned(k)
         /\ Qualifies(k) /\ ~Fails(k) => Returned(k)

\* The tag-based variant, asked for a, skipped b.md, which could not be
\* read or parsed, and returned d/c.
C24_Witness ==
  /\ Scanned
  /\ variant = "tags"
  /\ request.path = Str_a
  /\ request.limit >= 2
  /\ Fails(<<Str_r, Str_b_md>>)
  /\ ~Returned(<<Str_r, Str_b_md>>)
  /\ Returned(<<Str_r, Str_d, Str_c_md>>)
  /\ response.status = 200

\* C25: when the enumeration fails on a directory that cannot be listed,
\* the answer is 500 'Failed to get related documents' and no entry is
\* written to the cache.
C25_FailedScanIsError ==
  Scanned /\ EnumerationFails =>
    /\ response.status = 500
    /\ response.error = "Failed to get related documents"
    /\ NormalizeDocumentPath(request.path) \notin DOMAIN cache

\* The entries of the directory the current listing request names that pass
\* the filters.
PassingEntries ==
  {e \in {ListedEntries[i] : i \in 1..Len(ListedEntries)} :
     /\ e.name[1] # DOT
     /\ e.isDirectory \/ ToLowerCase(PathExtname(e.name)) \in contentExtensions}

\* C26: a listing whose directory can be read is answered with status 200
\* and holds every entry that passes the filters, also when the .metadata
\* of a directory or the front matter of a file is missing, unreadable or
\* malformed.
C26_ListedDespiteMetadata ==
  request.endpoint = "structure" /\ FsReaddir(fs, ResolvedPath).err = "OK" =>
    /\ response.status = 200
    /\ \A e \in PassingEntries :
         \E i \in 1..Len(response.items) :
           /\ response.items[i].name = e.name
           /\ response.items[i].isDirectory = e.isDirectory

\* The root listing holds d, whose .metadata is malformed or unreadable,
\* and b.md, whose front matter is: three items with status 200.
C26_Witness ==
  /\ request.endpoint = "structure"
  /\ request.path = <<>>
  /\ Str_metadata \in {fs[<<Str_r, Str_d>>].entries[i] :
                         i \in 1..Len(fs[<<Str_r, Str_d>>].entries)}
  /\ fs[<<Str_r, Str_d, Str_metadata>>].fault # "none"
  /\ fs[<<Str_r, Str_b_md>>].fault # "none"
  /\ response.status = 200
  /\ Len(response.items) = 3

(***************************************************************************)
(* Progress of concurrent requests.  The operating system completes every  *)
(* filesystem call of a finite tree and the event loop runs the            *)
(* continuation of every settled promise: each step of a request that has  *)
(* arrived is taken if it stays possible.  Nothing cancels a request.      *)
(***************************************************************************)
\* The next step of request i after its arrival.
Continue(i) == AccessSettles(i) \/ ReadSettles(i) \/ FindSettles(i) \/ WriteAndReturn(i)

Progress(i) == WF_vars(Continue(i))

SpecConcurrentLive ==
  InitConcurrent /\ [][NextConcurrent]_vars /\ \A i \in Requests : Progress(i)

\* C28: every request that has arrived eventually returns a response,
\* whatever the other requests do and however long their scans take.
C28_EveryRequestReturns ==
  \A i \in Requests :
    (request[i].pc # "idle") ~> (request[i].pc = "done" /\ response[i].status = 200)

\* A request has returned while another, which arrived before it, is still
\* scanning.
C28_Witness ==
  /\ request[1].pc = "find"
  /\ request[2].pc = "done"
  /\ request[2].wrote > 0
  /\ response[2].status = 200

(***************************************************************************)
(* Claims on what is written to the cache (under SpecCache)                *)
(***************************************************************************)
\* The step answers a request of the related endpoint.
AnswersRelated == request = NoRequest /\ request'.endpoint = "related"

\* A request for the answered key that reads the cache, made right after
\* the step, at time t with the limit given.
ServedNext(t, limit) ==
  FindRelatedDocumentsForPath(fs, variant, cache', t, request'.path, limit, FALSE)

\* C29: a successful request with skipCache makes the entry of its key its
\* own result with the current time, whatever entry the key had, and
\* requests that read the cache are served that result as long as its age
\* is at most the ttl; a request answered 400 or 404 writes no entry.
C29_SkipCacheStillWrites ==
  [][AnswersRelated =>
       /\ AnswersPath /\ request'.skipCache /\ response'.status = 200 =>
            /\ ~response'.fromCache
            /\ AnsweredKey \in DOMAIN cache'
            /\ cache'[AnsweredKey]
                 = [timestamp |-> now, data |-> response'.related,
                    ttl |-> DEFAULT_CACHE_TTL]
            /\ \A t \in {now, now + DEFAULT_CACHE_TTL}, limit \in 1..MaxCacheLimit :
                 /\ ServedNext(t, limit).fromCache
                 /\ ServedNext(t, limit).related
                      = SubSeq(response'.related, 1,
                               IF limit < Len(response'.related)
                               THEN limit ELSE Len(response'.related))
       /\ response'.status \in {400, 404} =>
            \A k \in DOMAIN cache' : k \in DOMAIN cache /\ cache'[k] = cache[k]]_vars

\* A request with skipCache, answered after one lifetime and the deletion
\* of a document, has written its list with the current time.
C29_Witness ==
  /\ SkippedCache
  /\ IsRelated
  /\ now = TickStep
  /\ fs # CacheTree
  /\ cache[NormalizeDocumentPath(request.path)]
       = [timestamp |-> now, data |-> response.related, ttl |-> DEFAULT_CACHE_TTL]

(***************************************************************************)
(* Claims on the limit (under SpecCache)                                   *)
(***************************************************************************)
\* The ranking of all candidates of the current request, computed from the
\* filesystem with a limit no list reaches.
FullRanking ==
  FindRelatedDocuments(fs, variant, NormalizeDocumentPath(request.path),
    PathDirname(NormalizeDocumentPath(request.path)),
    MetadataRead(FsReadFile(fs, PathJoin(CONTENT_DIR, NormalizeDocumentPath(request.path)))),
    Cardinality(DOMAIN fs)).docs

\* list holds the first limit elements of source, or all of source when it
\* has fewer.
PrefixOf(list, source, limit) ==
  /\ Len(list) = (IF limit < Len(source) THEN limit ELSE Len(source))
  /\ list = SubSeq(source, 1, Len(list))

\* C30: for every limit from 0 on the returned list has at most limit
\* elements and is the prefix of that length of the list it was taken from:
\* the cached list when served from the cache, the ranking of all
\* candidates when recomputed.
C30_AtMostLimit ==
  request.endpoint = "related" /\ "pathIsArray" \notin DOMAIN request =>
    /\ Len(response.related) <= request.limit
    /\ response.fromCache =>
         PrefixOf(response.related, cache[NormalizeDocumentPath(request.path)].data,
                  request.limit)
    /\ IsRelated /\ ~response.fromCache =>
         PrefixOf(response.related, FullRanking, request.limit)

\* A request with limit 0 served an empty list from an entry that holds
\* documents.
C30_Witness ==
  /\ IsRelated
  /\ response.fromCache
  /\ request.limit = 0
  /\ response.related = <<>>
  /\ cache[NormalizeDocumentPath(request.path)].data # <<>>

====
